---- MODULE Spec2Model ----
(***************************************************************************)
(* A model of the schema generator of terraform-gen: the derivation walker *)
(* SchemaGenerator.schemaFromStruct with its filter hook, the classifier   *)
(* typeFor, the naming transform util.Underscore, the indenting printer    *)
(* util.TabPrinter, the serializer schemaFprint and the expand emitter     *)
(* expandFprint.                                                           *)
(*                                                                         *)
(* Identifiers are sequences of one-character strings, so that the naming  *)
(* transform is computed character by character.  A type is a sequence of  *)
(* tokens: zero or more constructors "Ptr" / "Slice" followed by a base,   *)
(* which is either the name of a reflect.Kind or the name of a struct      *)
(* type of the universe StructNames.                                       *)
(***************************************************************************)
EXTENDS Integers, Sequences, FiniteSets, TLC

(***************************************************************************)
(* Bounds of the model.                                                    *)
(***************************************************************************)
\* Depth of the call stack at which the Go runtime gives up (stack overflow).
MaxDepth == 4
\* Number of filter invocations of one derivation that change the state.
MaxMods == 2
\* Number of "Slice" constructors around a base type in the classifier runs.
MaxSliceDepth == 3

(***************************************************************************)
(* util.Underscore                                                         *)
(***************************************************************************)
Upper == {"A", "B", "C", "D", "E", "F", "G", "H", "I", "J", "K", "L", "M",
          "N", "O", "P", "Q", "R", "S", "T", "U", "V", "W", "X", "Y", "Z"}

LowerOf == [c \in Upper |->
              CASE c = "A" -> "a" [] c = "B" -> "b" [] c = "C" -> "c"
                [] c = "D" -> "d" [] c = "E" -> "e" [] c = "F" -> "f"
                [] c = "G" -> "g" [] c = "H" -> "h" [] c = "I" -> "i"
                [] c = "J" -> "j" [] c = "K" -> "k" [] c = "L" -> "l"
                [] c = "M" -> "m" [] c = "N" -> "n" [] c = "O" -> "o"
                [] c = "P" -> "p" [] c = "Q" -> "q" [] c = "R" -> "r"
                [] c = "S" -> "s" [] c = "T" -> "t" [] c = "U" -> "u"
                [] c = "V" -> "v" [] c = "W" -> "w" [] c = "X" -> "x"
                [] c = "Y" -> "y" [] c = "Z" -> "z"]

\* strings.ToLower on an ASCII identifier.
ToLower(s) == [i \in 1..Len(s) |-> IF s[i] \in Upper THEN LowerOf[s[i]] ELSE s[i]]

\* Length of the longest run of characters of class "upper" (up = TRUE) or
\* "not upper" (up = FALSE) of s that starts at position p.
RECURSIVE RunLen(_, _, _)
RunLen(s, p, up) ==
    IF p > Len(s) \/ ((s[p] \in Upper) # up) THEN 0
    ELSE 1 + RunLen(s, p + 1, up)

\* Second group of the pattern, ([A-Z][^A-Z]+|$), tried at position q:
\* the length it matches, or -1 when neither alternative matches.
Group2At(s, q) ==
    IF q <= Len(s) /\ s[q] \in Upper /\ RunLen(s, q + 1, FALSE) >= 1
    THEN 1 + RunLen(s, q + 1, FALSE)
    ELSE IF q = Len(s) + 1 THEN 0 ELSE -1

\* Leftmost-first match of (^[^A-Z]*|[A-Z]*)([A-Z][^A-Z]+|$) at position p:
\* the first alternative of group 1 (only at the start of the text) is tried
\* greedily before the second, each backing off one character at a time.
MatchAt(s, p) ==
    LET ra == IF p = 1 THEN RunLen(s, 1, FALSE) ELSE -1
        okA == {n \in 0..ra : Group2At(s, p + n) >= 0}
        rb == RunLen(s, p, TRUE)
        okB == {n \in 0..rb : Group2At(s, p + n) >= 0}
        best(S) == CHOOSE n \in S : \A m \in S : m <= n
    IN  IF okA # {} THEN [ok |-> TRUE, g1 |-> best(okA), g2 |-> Group2At(s, p + best(okA))]
        ELSE IF okB # {} THEN [ok |-> TRUE, g1 |-> best(okB), g2 |-> Group2At(s, p + best(okB))]
        ELSE [ok |-> FALSE, g1 |-> 0, g2 |-> 0]

\* camelCase.FindAllStringSubmatch(name, -1) with the loop that collects the
\* non-empty submatches: the sequence of words.
RECURSIVE Words(_, _)
Words(s, p) ==
    IF p > Len(s) THEN << >>
    ELSE LET m == MatchAt(s, p) IN
         IF ~m.ok \/ m.g1 + m.g2 = 0 THEN Words(s, p + 1)
         ELSE (IF m.g1 > 0 THEN <<SubSeq(s, p, p + m.g1 - 1)>> ELSE << >>)
              \o (IF m.g2 > 0 THEN <<SubSeq(s, p + m.g1, p + m.g1 + m.g2 - 1)>> ELSE << >>)
              \o Words(s, p + m.g1 + m.g2)

\* strings.Join(words, "_")
RECURSIVE Join(_)
Join(ws) ==
    IF ws = << >> THEN << >>
    ELSE IF Len(ws) = 1 THEN ws[1]
    ELSE ws[1] \o <<"_">> \o Join(Tail(ws))

Underscore(name) == ToLower(Join(Words(name, 1)))


(***************************************************************************)
(* Types: reflect.Type, reflect.Kind and the struct types of the universe  *)
(***************************************************************************)
IntKinds == {"Int", "Int8", "Int16", "Int32", "Int64",
             "Uint", "Uint8", "Uint16", "Uint32", "Uint64"}
FloatKinds == {"Float32", "Float64"}
\* The kinds of package reflect that typeFor has no case for.
OtherKinds == {"Uintptr", "Complex64", "Complex128", "Array", "Chan",
               "Func", "Interface", "Ptr", "UnsafePointer"}
BaseKinds == IntKinds \cup FloatKinds \cup {"String", "Bool", "Map"}
                 \cup (OtherKinds \ {"Ptr"})
Kinds == BaseKinds \cup {"Ptr", "Slice", "Struct"}

StructNames == {"Base", "Nested", "Embedded", "SliceC", "Iface", "Node", "Pair", "Clash",
                "Wide", "Twin", "Mixed", "SliceP", "Duo"}

\* Identifiers of the universe.
nFoo == <<"F", "o", "o">>
nBase == <<"B", "a", "s", "e">>
nOne == <<"O", "n", "e">>
nEmb == <<"E", "m", "b">>
nItems == <<"I", "t", "e", "m", "s">>
nTags == <<"T", "a", "g", "s">>
nAny == <<"A", "n", "y">>
nNext == <<"N", "e", "x", "t">>
nAb == <<"A", "b">>
nAB == <<"A", "B">>
nA == <<"A">>
nB == <<"B">>

\* rawType.Field(i) of every struct type: the declared fields in order.
\*   Base     struct{ Foo string }
\*   Nested   struct{ Base; One string }          (Base is embedded)
\*   Embedded struct{ Emb Nested }
\*   SliceC   struct{ Items []Base; Tags []string }
\*   Iface    struct{ Any interface{} }
\*   Node     struct{ Next *Node }                 (a cyclic type)
\*   Pair     struct{ Ab string; AB int }
\*   Clash    struct{ Foo bool; Base *Base }
\*   Wide     struct{ Foo string; One int }
\*   Twin     struct{ A Wide; B *Wide }
\*   Mixed    struct{ Any interface{}; One string }
\*   SliceP   struct{ Items []*Base }
\*   Duo      struct{ One Wide; Base Base }
StructFields ==
    [n \in StructNames |->
       CASE n = "Base"     -> <<[Name |-> nFoo, Type |-> <<"String">>]>>
         [] n = "Nested"   -> <<[Name |-> nBase, Type |-> <<"Base">>],
                                [Name |-> nOne, Type |-> <<"String">>]>>
         [] n = "Embedded" -> <<[Name |-> nEmb, Type |-> <<"Nested">>]>>
         [] n = "SliceC"   -> <<[Name |-> nItems, Type |-> <<"Slice", "Base">>],
                                [Name |-> nTags, Type |-> <<"Slice", "String">>]>>
         [] n = "Iface"    -> <<[Name |-> nAny, Type |-> <<"Interface">>]>>
         [] n = "Node"     -> <<[Name |-> nNext, Type |-> <<"Ptr", "Node">>]>>
         [] n = "Pair"     -> <<[Name |-> nAb, Type |-> <<"String">>],
                                [Name |-> nAB, Type |-> <<"Int">>]>>
         [] n = "Clash"    -> <<[Name |-> nFoo, Type |-> <<"Bool">>],
                                [Name |-> nBase, Type |-> <<"Ptr", "Base">>]>>
         [] n = "Wide"     -> <<[Name |-> nFoo, Type |-> <<"String">>],
                                [Name |-> nOne, Type |-> <<"Int">>]>>
         [] n = "Twin"     -> <<[Name |-> nA, Type |-> <<"Wide">>],
                                [Name |-> nB, Type |-> <<"Ptr", "Wide">>]>>
         [] n = "Mixed"    -> <<[Name |-> nAny, Type |-> <<"Interface">>],
                                [Name |-> nOne, Type |-> <<"String">>]>>
         [] n = "SliceP"   -> <<[Name |-> nItems, Type |-> <<"Slice", "Ptr", "Base">>]>>
         [] n = "Duo"      -> <<[Name |-> nOne, Type |-> <<"Wide">>],
                                [Name |-> nBase, Type |-> <<"Base">>]>>]

\* reflect.Type.Kind
Kind(t) == IF Head(t) \in StructNames THEN "Struct" ELSE Head(t)

\* reflect.Type.Elem of a pointer or slice type
Elem(t) == Tail(t)

\* util.DereferencePtrType
RECURSIVE DereferencePtrType(_)
DereferencePtrType(t) ==
    IF Kind(t) = "Ptr" THEN DereferencePtrType(Elem(t)) ELSE t

\* rawType.NumField and rawType.Field of the dereferenced subject type
NumField(t) == Len(StructFields[Head(DereferencePtrType(t))])
Field(t, i) == StructFields[Head(DereferencePtrType(t))][i + 1]

(***************************************************************************)
(* typeFor                                                                 *)
(***************************************************************************)
\* typeFor with a struct classified as a map.
RECURSIVE typeForStructMap(_, _)
typeForStructMap(k, t) ==
    CASE k \in IntKinds   -> "TypeInt"
      [] k \in FloatKinds -> "TypeFloat"
      [] k = "String"     -> "TypeString"
      [] k = "Bool"       -> "TypeBool"
      [] k = "Slice"      -> IF typeForStructMap(Kind(Elem(t)), Elem(t)) # "TypeList"
                             THEN "TypeList" ELSE "TypeSet"
      [] k = "Map"        -> "TypeMap"
      [] k = "Struct"     -> "TypeMap"
      [] OTHER            -> "TypeInvalid"

\* typeFor with every slice of slices classified as a set.
RECURSIVE typeForNestedSet(_, _)
typeForNestedSet(k, t) ==
    CASE k \in IntKinds   -> "TypeInt"
      [] k \in FloatKinds -> "TypeFloat"
      [] k = "String"     -> "TypeString"
      [] k = "Bool"       -> "TypeBool"
      [] k = "Slice"      -> IF typeForNestedSet(Kind(Elem(t)), Elem(t)) \notin {"TypeList", "TypeSet"}
                             THEN "TypeList" ELSE "TypeSet"
      [] k = "Map"        -> "TypeMap"
      [] k = "Struct"     -> "TypeList"
      [] OTHER            -> "TypeInvalid"

RECURSIVE typeFor(_, _)
typeFor(k, t) ==
    CASE k \in IntKinds   -> "TypeInt"
      [] k \in FloatKinds -> "TypeFloat"
      [] k = "String"     -> "TypeString"
      [] k = "Bool"       -> "TypeBool"
      [] k = "Slice"      -> IF typeFor(Kind(Elem(t)), Elem(t)) # "TypeList"
                             THEN "TypeList" ELSE "TypeSet"
      [] k = "Map"        -> "TypeMap"
      [] k = "Struct"     -> "TypeList"
      [] OTHER            -> "TypeInvalid"


(***************************************************************************)
(* The state of one derivation                                             *)
(***************************************************************************)
VARIABLES
    stack,      \* the active calls of schemaFromStruct, outermost first
    pc,         \* "running", "done", "failed" or "overflow"
    err,        \* the error on its way to the caller, NoErr when there is none
    result,     \* what the outermost call returned: fields, meta, err
    hasFilter,  \* g.FilterFunc != nil
    mods,       \* filter invocations so far that changed the state or failed
    ncalls,     \* filter invocations so far
    lastCall,   \* the state handed to the latest filter invocation
    ferr,       \* some filter invocation returned an error
    cin,        \* classifier run: the type handed to typeFor
    cout,       \* classifier run: the value-kind typeFor returned
    tp,         \* printer run: a line, and the printers that write it
    sin,        \* serializer run: the schema mapping handed to schemaFprint
    emit,       \* what schemaFprint and expandFprint have written
    un          \* naming run: the identifier handed to Underscore, and the key

vars == <<stack, pc, err, result, hasFilter, mods, ncalls, lastCall, ferr, cin, cout, tp, sin,
          emit, un>>

\* schema.Schema, as far as the generator reads or writes it.  ElemKind tells
\* what Elem holds: nothing, a *schema.Schema (ElemType) or a
\* *schema.Resource (Elem, its Schema map).
\* Default holds the dynamic type of the value ("nil" for none), and
\* Description and InputDefault hold their text.
EmptySchema == [Type |-> "TypeInvalid", ElemKind |-> "none", ElemType |-> "TypeInvalid",
                Elem |-> << >>, MaxItems |-> 0, Required |-> FALSE,
                Default |-> "nil", Description |-> << >>, InputDefault |-> << >>]

\* A nil *genMetaResource.
NoMeta == [Type |-> << >>, Schema |-> << >>]

\* A nil *reflect.StructField.
NoField == [Name |-> << >>, Type |-> << >>]

NoErr == [kind |-> "none", key |-> << >>]
FilterErr == [kind |-> "filter", key |-> << >>]
CollisionErr(k) == [kind |-> "collision", key |-> k]

\* No printer run, and nothing emitted.
NoPrinter == [line |-> << >>]
NoOutput == [state |-> "none", out |-> << >>]
NoEmit == [schema |-> NoOutput, expand |-> NoOutput]

\* No naming run.
NoName == [name |-> << >>, key |-> << >>, state |-> "none"]

\* new(GenFieldState)
NewGenFieldState == [CurrentName |-> << >>, CurrentField |-> NoField,
                     CurrentSchema |-> EmptySchema, Action |-> "ActionDefault"]

\* The locals of a call of schemaFromStruct at its entry.  wait tells which
\* nested call the loop body is waiting for, and asked and changed record
\* the action that the filter requested and the change that it made in its
\* invocation for the current field.
NewFrame(subj) == [subj |-> subj, i |-> 0, fields |-> << >>, meta |-> << >>,
                   fs |-> NewGenFieldState, wait |-> "none", asked |-> "keep",
                   changed |-> "none"]

(***************************************************************************)
(* The filter hook.  What a FilterFunc does to the state it is handed is   *)
(* an input of the derivation: an action it requests (or none) together    *)
(* with one further change (or none).                                      *)
(***************************************************************************)
RenameTo == <<"f", "o", "o">>
RedirectTo == <<"Ptr", "Base">>

FilterActs == {"keep", "ActionDefault", "ActionSkip", "ActionPromote"}
FilterChanges == {"none", "rename", "empty", "kindString", "kindList", "attr",
                  "redirect", "error"}
FilterOutcomes == [act : FilterActs, mod : FilterChanges]
NoChange == [act |-> "keep", mod |-> "none"]

ApplyFilter(fs, out) ==
    [CurrentName |-> CASE out.mod = "rename" -> RenameTo
                       [] out.mod = "empty" -> << >>
                       [] OTHER -> fs.CurrentName,
     CurrentField |-> IF out.mod = "redirect"
                      THEN [fs.CurrentField EXCEPT !.Type = RedirectTo]
                      ELSE fs.CurrentField,
     CurrentSchema |-> CASE out.mod = "kindString" -> [fs.CurrentSchema EXCEPT !.Type = "TypeString"]
                         [] out.mod = "kindList" -> [fs.CurrentSchema EXCEPT !.Type = "TypeList"]
                         [] out.mod = "attr" -> [fs.CurrentSchema EXCEPT !.Required = TRUE]
                         [] OTHER -> fs.CurrentSchema,
     Action |-> IF out.act = "keep" THEN fs.Action ELSE out.act]

(***************************************************************************)
(* schemaFromStruct, one loop iteration at a time                          *)
(***************************************************************************)
\* The state as set up for field f at the top of the loop body.  fs itself is
\* allocated once per call, before the loop, so Action is whatever the
\* previous iteration left in it.
FieldState(fs, f) ==
    [CurrentName |-> Underscore(f.Name), CurrentField |-> f,
     CurrentSchema |-> EmptySchema, Action |-> fs.Action]

\* ResolveType that asks the classifier whatever the filter has left in the
\* schema.
ResolveTypeClassifierWins(fs) ==
    LET t == DereferencePtrType(fs.CurrentField.Type) IN typeFor(Kind(t), t)

\* The value-kind of the entry: the one the filter left in the schema, or
\* else the classifier's for the dereferenced type of the current field.
ResolveType(fs) ==
    LET t == DereferencePtrType(fs.CurrentField.Type) IN
    IF fs.CurrentSchema.Type = "TypeInvalid" THEN typeFor(Kind(t), t)
    ELSE fs.CurrentSchema.Type

\* Decide without the skip of a field that has no value-kind.
DecideKeepsInvalid(fs) ==
    LET t == DereferencePtrType(fs.CurrentField.Type)
        k == Kind(t)
        st == ResolveType(fs)
    IN  CASE fs.Action = "ActionSkip" -> "skip"
          [] st \in {"TypeList", "TypeSet"} /\ k = "Slice" /\ Kind(Elem(t)) # "Struct" -> "scalars"
          [] st \in {"TypeList", "TypeSet"} /\ k = "Slice" -> "callSlice"
          [] st \in {"TypeList", "TypeSet"} /\ k = "Struct" -> "callStruct"
          [] OTHER -> "commit"

\* What the loop body does with the field once the filter has returned.
Decide(fs) ==
    LET t == DereferencePtrType(fs.CurrentField.Type)
        k == Kind(t)
        st == ResolveType(fs)
    IN  CASE fs.Action = "ActionSkip" -> "skip"
          [] st = "TypeInvalid" -> "drop"
          [] st \in {"TypeList", "TypeSet"} /\ k = "Slice" /\ Kind(Elem(t)) # "Struct" -> "scalars"
          [] st \in {"TypeList", "TypeSet"} /\ k = "Slice" -> "callSlice"
          [] st \in {"TypeList", "TypeSet"} /\ k = "Struct" -> "callStruct"
          [] OTHER -> "commit"

\* Commit with the metadata node left out.
CommitNoMeta(fr, sch, ms) ==
    IF fr.fs.CurrentName # << >>
    THEN [fr EXCEPT !.fields = (fr.fs.CurrentName :> sch) @@ fr.fields,
                    !.i = fr.i + 1, !.wait = "none"]
    ELSE [fr EXCEPT !.i = fr.i + 1, !.wait = "none"]

\* fields[fs.CurrentName] = fs.CurrentSchema; meta.Schema[fs.CurrentName] =
\* metaSchema, unless the name is empty; then the next iteration.
Commit(fr, sch, ms) ==
    IF fr.fs.CurrentName # << >>
    THEN [fr EXCEPT !.fields = (fr.fs.CurrentName :> sch) @@ fr.fields,
                    !.meta = (fr.fs.CurrentName :> ms) @@ fr.meta,
                    !.i = fr.i + 1, !.wait = "none"]
    ELSE [fr EXCEPT !.i = fr.i + 1, !.wait = "none"]

\* metaSchema of the current field, with the sub-resource m (or none).
MetaSchema(fs, hasElem, m) == [Field |-> fs.CurrentField, HasElem |-> hasElem, Elem |-> m]


\* m.Schema[k]: a map lookup, nil when the key is missing.
NilMetaSchema == [Field |-> NoField, HasElem |-> FALSE, Elem |-> NoMeta]
MetaAt(ms, k) == IF k \in DOMAIN ms THEN ms[k] ELSE NilMetaSchema

\* The promote loop with the metadata node of the merged key left out.
RECURSIVE PromoteMergeNoMeta(_, _, _, _, _)
PromoteMergeNoMeta(fields, meta, e, ms, order) ==
    IF order = << >> THEN [fields |-> fields, meta |-> meta, err |-> NoErr]
    ELSE LET k == Head(order) IN
         IF k \in DOMAIN fields \/ k \in DOMAIN meta
         THEN [fields |-> fields, meta |-> meta, err |-> CollisionErr(k)]
         ELSE PromoteMergeNoMeta((k :> e[k]) @@ fields, meta, e, ms, Tail(order))

\* The promote loop without the test for a key that is already there.
RECURSIVE PromoteMergeOverwrite(_, _, _, _, _)
PromoteMergeOverwrite(fields, meta, e, ms, order) ==
    IF order = << >> THEN [fields |-> fields, meta |-> meta, err |-> NoErr]
    ELSE LET k == Head(order) IN
         PromoteMergeOverwrite((k :> e[k]) @@ fields, (k :> MetaAt(ms, k)) @@ meta,
                               e, ms, Tail(order))

\* The promote loop, for k, v := range e, with the keys of e visited in the
\* given order: every key is merged into fields and meta until one is found
\* that is already there.
RECURSIVE PromoteMerge(_, _, _, _, _)
PromoteMerge(fields, meta, e, ms, order) ==
    IF order = << >> THEN [fields |-> fields, meta |-> meta, err |-> NoErr]
    ELSE LET k == Head(order) IN
         IF k \in DOMAIN fields \/ k \in DOMAIN meta
         THEN [fields |-> fields, meta |-> meta, err |-> CollisionErr(k)]
         ELSE PromoteMerge((k :> e[k]) @@ fields, (k :> MetaAt(ms, k)) @@ meta,
                           e, ms, Tail(order))

\* The orders in which a range over a map with key set S can visit the keys.
Orders(S) == {o \in [1..Cardinality(S) -> S] : \A a, b \in DOMAIN o : o[a] = o[b] => a = b}

\* A filter error that the loop does not look at.
FilterErrorSwallowed(out) == NoErr

\* The error a filter invocation hands back, which the loop returns at once.
FilterError(out) == IF out.mod = "error" THEN FilterErr ELSE NoErr

\* The filter invocations the model draws: none but NoChange without a
\* filter, at most MaxMods changing ones per derivation, and a redirect only
\* for a field of interface type.
FilterAllowed(f, out) ==
    /\ out # NoChange => hasFilter /\ mods < MaxMods
    /\ out.mod = "redirect" => Kind(DereferencePtrType(f.Type)) = "Interface"

Top == stack[Len(stack)]
ReplaceTop(fr) == SubSeq(stack, 1, Len(stack) - 1) \o <<fr>>

\* One iteration of the loop over the fields, up to the next iteration, the
\* return of an error, or the entry of a nested call.
ProcessField ==
    /\ pc = "running" /\ err = NoErr
    /\ Top.wait = "none"
    /\ Top.i < NumField(Top.subj)
    /\ \E out \in FilterOutcomes :
         LET f == Field(Top.subj, Top.i)
             fs0 == FieldState(Top.fs, f)
             fs1 == IF hasFilter THEN ApplyFilter(fs0, out) ELSE fs0
             e == IF hasFilter THEN FilterError(out) ELSE NoErr
             t == DereferencePtrType(fs1.CurrentField.Type)
             d == Decide(fs1)
             sch == [fs1.CurrentSchema EXCEPT !.Type = ResolveType(fs1)]
             cur == [Top EXCEPT !.asked = IF hasFilter THEN out.act ELSE "keep",
                                !.changed = IF hasFilter THEN out.mod ELSE "none"]
             fr == [cur EXCEPT !.fs = [fs1 EXCEPT !.CurrentSchema = sch]]
         IN  /\ FilterAllowed(f, out)
             /\ mods' = IF out # NoChange THEN mods + 1 ELSE mods
             /\ ncalls' = IF hasFilter THEN ncalls + 1 ELSE ncalls
             /\ lastCall' = IF hasFilter
                            THEN [fs |-> fs0, field |-> f, depth |-> Len(stack),
                                  act |-> out.act, mod |-> out.mod]
                            ELSE lastCall
             /\ ferr' = (ferr \/ (hasFilter /\ out.mod = "error"))
             /\ CASE e # NoErr ->
                       /\ err' = e
                       /\ stack' = ReplaceTop([cur EXCEPT !.fs = fs1])
                       /\ pc' = pc
                  [] e = NoErr /\ d \in {"skip", "drop"} ->
                       /\ stack' = ReplaceTop([cur EXCEPT !.fs = fs1, !.i = Top.i + 1])
                       /\ UNCHANGED <<err, pc>>
                  [] e = NoErr /\ d = "scalars" ->
                       /\ stack' = ReplaceTop(Commit(fr,
                              [sch EXCEPT !.ElemKind = "schema",
                                          !.ElemType = typeFor(Kind(Elem(t)), Elem(t))],
                              MetaSchema(fs1, FALSE, NoMeta)))
                       /\ UNCHANGED <<err, pc>>
                  [] e = NoErr /\ d = "commit" ->
                       /\ stack' = ReplaceTop(Commit(fr, sch, MetaSchema(fs1, FALSE, NoMeta)))
                       /\ UNCHANGED <<err, pc>>
                  [] e = NoErr /\ d \in {"callSlice", "callStruct"} ->
                       IF Len(stack) < MaxDepth
                       THEN /\ stack' = ReplaceTop([fr EXCEPT !.wait = IF d = "callSlice"
                                                                      THEN "slice" ELSE "struct"])
                                        \o <<NewFrame(IF d = "callSlice" THEN Elem(t) ELSE t)>>
                            /\ UNCHANGED <<err, pc>>
                       ELSE /\ pc' = "overflow"
                            /\ stack' = ReplaceTop(fr)
                            /\ err' = err
    /\ UNCHANGED <<result, hasFilter, cin, cout, tp, sin, emit, un>>

\* A nested call has run its loop to the end and returns fields, meta, nil
\* to the call that waits for it.
Returned == /\ pc = "running" /\ err = NoErr
            /\ Len(stack) > 1
            /\ Top.wait = "none"
            /\ Top.i = NumField(Top.subj)
Caller == stack[Len(stack) - 1]
ReturnedMeta == [Type |-> Top.subj, Schema |-> Top.meta]
ReplaceCaller(fr) == SubSeq(stack, 1, Len(stack) - 2) \o <<fr>>

\* case reflect.Slice: the nested schema becomes the element of the entry.
AttachSlice ==
    /\ Returned
    /\ Caller.wait = "slice"
    /\ stack' = ReplaceCaller(Commit(Caller,
           [Caller.fs.CurrentSchema EXCEPT !.ElemKind = "resource", !.Elem = Top.fields],
           MetaSchema(Caller.fs, TRUE, ReturnedMeta)))
    /\ UNCHANGED <<pc, err, result, hasFilter, mods, ncalls, lastCall, ferr, cin, cout, tp, sin, emit, un>>

\* AttachStruct without the constraint on the number of elements.
AttachStructUnbounded ==
    /\ Returned
    /\ Caller.wait = "struct"
    /\ Caller.fs.Action # "ActionPromote"
    /\ stack' = ReplaceCaller(Commit(Caller,
           [Caller.fs.CurrentSchema EXCEPT !.ElemKind = "resource", !.Elem = Top.fields],
           MetaSchema(Caller.fs, TRUE, ReturnedMeta)))
    /\ UNCHANGED <<pc, err, result, hasFilter, mods, ncalls, lastCall, ferr, cin, cout, tp, sin, emit, un>>

\* case reflect.Struct, no promotion: the nested schema becomes the single
\* element of the entry.
AttachStruct ==
    /\ Returned
    /\ Caller.wait = "struct"
    /\ Caller.fs.Action # "ActionPromote"
    /\ stack' = ReplaceCaller(Commit(Caller,
           [Caller.fs.CurrentSchema EXCEPT !.ElemKind = "resource", !.Elem = Top.fields,
                                           !.MaxItems = 1],
           MetaSchema(Caller.fs, TRUE, ReturnedMeta)))
    /\ UNCHANGED <<pc, err, result, hasFilter, mods, ncalls, lastCall, ferr, cin, cout, tp, sin, emit, un>>

\* case reflect.Struct with ActionPromote: the nested fields are merged into
\* the fields of the waiting call.
Promote ==
    /\ Returned
    /\ Caller.wait = "struct"
    /\ Caller.fs.Action = "ActionPromote"
    /\ \E order \in Orders(DOMAIN Top.fields) :
         LET r == PromoteMerge(Caller.fields, Caller.meta, Top.fields, Top.meta, order) IN
         /\ stack' = ReplaceCaller([Caller EXCEPT !.fields = r.fields, !.meta = r.meta,
                                                  !.wait = "none",
                                                  !.i = IF r.err = NoErr THEN Caller.i + 1
                                                        ELSE Caller.i])
         /\ err' = r.err
    /\ UNCHANGED <<pc, result, hasFilter, mods, ncalls, lastCall, ferr, cin, cout, tp, sin, emit, un>>

\* return fields, meta, err: the call on top of the stack hands the error to
\* its caller, the outermost one to the caller of the derivation.
ReturnErr ==
    /\ pc = "running" /\ err # NoErr
    /\ stack' = SubSeq(stack, 1, Len(stack) - 1)
    /\ IF Len(stack) = 1
       THEN /\ pc' = "failed"
            /\ result' = [fields |-> Top.fields,
                          meta |-> [Type |-> Top.subj, Schema |-> Top.meta], err |-> err]
       ELSE UNCHANGED <<pc, result>>
    /\ UNCHANGED <<err, hasFilter, mods, ncalls, lastCall, ferr, cin, cout, tp, sin, emit, un>>

\* return fields, meta, nil of the outermost call.
Finish ==
    /\ pc = "running" /\ err = NoErr
    /\ Len(stack) = 1
    /\ Top.wait = "none"
    /\ Top.i = NumField(Top.subj)
    /\ pc' = "done"
    /\ result' = [fields |-> Top.fields,
                  meta |-> [Type |-> Top.subj, Schema |-> Top.meta], err |-> NoErr]
    /\ stack' = << >>
    /\ UNCHANGED <<err, hasFilter, mods, ncalls, lastCall, ferr, cin, cout, tp, sin, emit, un>>

(***************************************************************************)
(* util.TabPrinter.  Text is a sequence of tokens: the delimiters, the     *)
(* newline, the tab, and pieces of text that hold none of these.           *)
(***************************************************************************)
MaxTabs == 2
MaxLine == 3

Opening == {"{", "("}
Closing == {"}", ")"}
NL == "\n"
TAB == "\t"

\* NewTabPrinter(tc)
NewTabPrinter(tc) == [tc |-> tc, lbuf |-> << >>]

\* TabPrinter.Count
Count(p) == p.tc

\* strings.Repeat("\t", n)
RECURSIVE Repeat(_, _)
Repeat(c, n) == IF n <= 0 THEN << >> ELSE <<c>> \o Repeat(c, n - 1)

\* calcClose that takes no level off.
calcCloseNever(p, s) == p

\* TabPrinter.calcClose: the first delimiter of s decides; a closing one
\* takes one level off, down to zero.
RECURSIVE calcClose(_, _)
calcClose(p, s) ==
    IF s = << >> THEN p
    ELSE IF Head(s) \in Opening THEN p
    ELSE IF Head(s) \in Closing
         THEN [p EXCEPT !.tc = IF p.tc - 1 < 0 THEN 0 ELSE p.tc - 1]
    ELSE calcClose(p, Tail(s))

\* The number of tokens of s that are in D.
RECURSIVE CountIn(_, _)
CountIn(s, D) ==
    IF s = << >> THEN 0
    ELSE (IF Head(s) \in D THEN 1 ELSE 0) + CountIn(Tail(s), D)

\* calcOpen that counts the delimiters of the write instead of the line.
calcOpenPerWrite(p, s) ==
    LET l == p.lbuf \o s IN
    IF l = << >> \/ l[Len(l)] # NL
    THEN [p EXCEPT !.lbuf = l]
    ELSE [tc |-> IF CountIn(s, Opening) > CountIn(s, Closing) THEN p.tc + 1 ELSE p.tc,
          lbuf |-> << >>]

\* TabPrinter.calcOpen: the write joins the line buffer; when the buffer
\* ends in a newline, more opening than closing delimiters in it add one
\* level, and the buffer is emptied.
calcOpen(p, s) ==
    LET l == p.lbuf \o s IN
    IF l = << >> \/ l[Len(l)] # NL
    THEN [p EXCEPT !.lbuf = l]
    ELSE [tc |-> IF CountIn(l, Opening) > CountIn(l, Closing) THEN p.tc + 1 ELSE p.tc,
          lbuf |-> << >>]

\* Fprintf that indents every write.
FprintfTabsAlways(p, s) ==
    LET p1 == calcClose(p, s)
    IN  [p |-> calcOpen(p1, s), out |-> Repeat(TAB, p1.tc) \o s]

\* TabPrinter.Fprintf of the rendered text s: the printer afterwards, and
\* what is written to w.
Fprintf(p, s) ==
    LET p1 == calcClose(p, s)
        tc == IF Len(p1.lbuf) > 0 THEN 0 ELSE p1.tc
    IN  [p |-> calcOpen(p1, s), out |-> Repeat(TAB, tc) \o s]

(***************************************************************************)
(* schemaFprint                                                            *)
(***************************************************************************)
\* The characters of keys, in the order of their codes.
Ascii == <<"A", "B", "C", "D", "E", "F", "G", "H", "I", "J", "K", "L", "M",
           "N", "O", "P", "Q", "R", "S", "T", "U", "V", "W", "X", "Y", "Z",
           "_",
           "a", "b", "c", "d", "e", "f", "g", "h", "i", "j", "k", "l", "m",
           "n", "o", "p", "q", "r", "s", "t", "u", "v", "w", "x", "y", "z">>
Code(c) == CHOOSE i \in 1..Len(Ascii) : Ascii[i] = c

\* a < b for strings
RECURSIVE Less(_, _)
Less(a, b) ==
    IF b = << >> THEN FALSE
    ELSE IF a = << >> THEN TRUE
    ELSE IF Head(a) = Head(b) THEN Less(Tail(a), Tail(b))
    ELSE Code(Head(a)) < Code(Head(b))

RECURSIVE Insert(_, _)
Insert(k, sorted) ==
    IF sorted = << >> THEN <<k>>
    ELSE IF Less(k, Head(sorted)) THEN <<k>> \o sorted
    ELSE <<Head(sorted)>> \o Insert(k, Tail(sorted))

\* The keys left in the order in which the range over the map gave them.
SortStringsNot(keys) == keys

\* sort.Strings
RECURSIVE SortStrings(_)
SortStrings(keys) ==
    IF keys = << >> THEN << >> ELSE Insert(Head(keys), SortStrings(Tail(keys)))

\* The keys of a mapping and of the mappings nested in it.
RECURSIVE AllKeys(_)
AllKeys(s) ==
    DOMAIN s \cup UNION {IF s[k].ElemKind = "resource" THEN AllKeys(s[k].Elem) ELSE {}
                        : k \in DOMAIN s}

RECURSIVE SomeOrder(_)
SomeOrder(S) ==
    IF S = {} THEN << >>
    ELSE LET x == CHOOSE x \in S : TRUE IN <<x>> \o SomeOrder(S \ {x})

Reverse(q) == [i \in 1..Len(q) |-> q[Len(q) + 1 - i]]

\* The orders of visiting the keys that the model draws for the ranges over
\* the maps of an emission: one order of all keys, or the opposite one.
Visits(S) == {SomeOrder(S), Reverse(SomeOrder(S))}

\* for k := range m, under the visiting order
Range(mp, order) == SelectSeq(order, LAMBDA k : k \in DOMAIN mp)

\* %q of a string without characters to escape
Quote(str) == <<"\"">> \o str \o <<"\"">>

\* strconv.Itoa, for one digit
Itoa(n) == <<"0", "1", "2", "3", "4", "5", "6", "7", "8", "9">>[n + 1]

\* The dynamic types of Default values the model draws, and the value it
\* draws of each: 1, "x", true and 1.5.
DefaultTypes == {"int", "string", "bool", "float64"}

\* valToStr knows int, string and bool, and panics otherwise.
valToStrKnows(ty) == ty \in {"int", "string", "bool"}
valToStr(ty) ==
    CASE ty = "int" -> <<Itoa(1)>>
      [] ty = "string" -> Quote(<<"x">>)
      [] ty = "bool" -> <<"true">>

\* An emission in progress: the printer, what has been written, whether no
\* panic has ended it, the number of writes that the writer still takes
\* before it fails (NeverFails for a writer that takes them all), and
\* whether a write has returned an error.
NeverFails == -1
NewOutput(tc) == [p |-> NewTabPrinter(tc), out |-> << >>, ok |-> TRUE,
                  room |-> NeverFails, werr |-> FALSE]

\* p.Fprintf(w, ...) as the emitters call it, the values it returns dropped.
\* A write that the writer refuses leaves nothing in the text; the printer
\* moves on as after any write.
Put(e, str) ==
    IF ~e.ok THEN e
    ELSE LET r == Fprintf(e.p, str) IN
         IF e.room = 0 THEN [e EXCEPT !.p = r.p, !.werr = TRUE]
         ELSE [e EXCEPT !.p = r.p, !.out = e.out \o r.out,
                        !.room = IF e.room > 0 THEN e.room - 1 ELSE e.room]
Panic(e) == [e EXCEPT !.ok = FALSE]

RECURSIVE schemaFprint(_, _, _)

\* A write made only when the attribute is not the zero value of its type.
PutIf(set, e, str) == IF set THEN Put(e, str) ELSE e

\* case "Default": the value goes through valToStr
PrintDefault(e, v) ==
    IF v.Default = "nil" THEN e
    ELSE IF valToStrKnows(v.Default)
         THEN Put(e, <<"Default: ">> \o valToStr(v.Default) \o <<",", NL>>)
         ELSE Panic(e)

\* The attributes of one entry up to Elem, in the order of the fields of
\* schema.Schema; a zero value is not printed.
PrintAttributes(e, v) ==
    PutIf(v.InputDefault # << >>,
          PutIf(v.Description # << >>,
                PrintDefault(PutIf(v.Required,
                                   PutIf(v.Type # "TypeInvalid", e,
                                         <<"Type: schema.", v.Type, ",", NL>>),
                                   <<"Required: ", "true", ",", NL>>),
                             v),
                <<"Description: ">> \o Quote(v.Description) \o <<",", NL>>),
          <<"InputDefault: ">> \o Quote(v.InputDefault) \o <<",", NL>>)

\* case "Elem": a *schema.Schema, a *schema.Resource, and no other case.
PrintElem(e, v, order) ==
    CASE v.ElemKind = "schema" ->
           Put(e, <<"Elem: &schema.Schema", "{", "Type: schema.", v.ElemType, "}", ",", NL>>)
      [] v.ElemKind = "resource" ->
           Put(schemaFprint(Put(Put(e, <<"Elem: &schema.Resource", "{", NL>>),
                                <<"Schema: ">>),
                            v.Elem, order),
               <<"}", ",", NL>>)
      [] OTHER -> e

\* One pass of the loop over the sorted keys.
PrintEntry(e, k, v, order) ==
    Put(PutIf(v.MaxItems # 0,
              PrintElem(PrintAttributes(Put(e, Quote(k) \o <<": ", "{", NL>>), v), v, order),
              <<"MaxItems: ", Itoa(v.MaxItems), ",", NL>>),
        <<"}", ",", NL>>)

RECURSIVE PrintEntries(_, _, _, _)
PrintEntries(e, s, keys, order) ==
    IF keys = << >> \/ ~e.ok THEN e
    ELSE PrintEntries(PrintEntry(e, Head(keys), s[Head(keys)], order), s, Tail(keys), order)

\* The end of the mapping: a comma follows the closing brace when the
\* printer's count is above zero, and a newline in either case.
PrintClose(e) == Put(PutIf(e.ok /\ Count(e.p) > 0, e, <<",">>), <<NL>>)

\* schemaFprint(w, s, p) with the printer and the writer in e; order is the
\* order in which the ranges over the maps visit the keys.
schemaFprint(e, s, order) ==
    PrintClose(Put(PrintEntries(Put(e, <<"map[string]*schema.Schema", "{", NL>>),
                                s, SortStrings(Range(s, order)), order),
                   <<"}">>))

\* What an emission leaves behind: "ok" when it returned, "panic" when it
\* did not, what it wrote, the printer as it left it, whether a write
\* failed, and the error it returned, which is nil on every path.
Emitted(e) == [state |-> IF e.ok THEN "ok" ELSE "panic", out |-> e.out, p |-> e.p,
               werr |-> e.werr, ret |-> NoErr]

(***************************************************************************)
(* expandFprint                                                            *)
(***************************************************************************)
\* reflect.Kind.String
KindString ==
    [k \in Kinds |->
       CASE k = "Int" -> "int" [] k = "Int8" -> "int8" [] k = "Int16" -> "int16"
         [] k = "Int32" -> "int32" [] k = "Int64" -> "int64"
         [] k = "Uint" -> "uint" [] k = "Uint8" -> "uint8" [] k = "Uint16" -> "uint16"
         [] k = "Uint32" -> "uint32" [] k = "Uint64" -> "uint64"
         [] k = "Float32" -> "float32" [] k = "Float64" -> "float64"
         [] k = "String" -> "string" [] k = "Bool" -> "bool" [] k = "Map" -> "map"
         [] k = "Uintptr" -> "uintptr" [] k = "Complex64" -> "complex64"
         [] k = "Complex128" -> "complex128" [] k = "Array" -> "array"
         [] k = "Chan" -> "chan" [] k = "Func" -> "func"
         [] k = "Interface" -> "interface" [] k = "Ptr" -> "ptr"
         [] k = "UnsafePointer" -> "unsafe.Pointer"
         [] k = "Slice" -> "slice" [] k = "Struct" -> "struct"]

\* reflect.Type.Name: the name of a struct type of the universe or of a
\* predeclared type, and the empty name of a pointer, slice or interface{}.
TypeName(t) ==
    CASE Kind(t) = "Struct" -> <<Head(t)>>
      [] Kind(t) \in {"Ptr", "Slice", "Interface"} -> << >>
      [] OTHER -> <<KindString[Kind(t)]>>

\* reflect.Type.String, which %s prints
RECURSIVE TypeString(_)
TypeString(t) ==
    CASE Kind(t) = "Struct" -> <<"schemagen.", Head(t)>>
      [] Kind(t) = "Ptr" -> <<"*">> \o TypeString(Elem(t))
      [] Kind(t) = "Slice" -> <<"[]">> \o TypeString(Elem(t))
      [] Kind(t) = "Interface" -> <<"interface ", "{", "}">>
      [] OTHER -> <<KindString[Kind(t)]>>

\* strings.Title of a type name: every name of StructNames begins with a
\* capital letter already, and the empty name stays empty.
Title(name) == name

\* The text of expandFlattenFprintType
ResourceData == <<"*schema.ResourceData">>
MapStringInterface == <<"map[string]interface", "{", "}">>

\* expandPrint that reads through the accessor whatever the source type.
expandPrintAccessor(eft, name) == <<"d.Get", "(">> \o Quote(name) \o <<")">>

\* expandFlattenFprintType.expandPrint
expandPrint(eft, name) ==
    IF eft = ResourceData
    THEN <<"d.Get", "(">> \o Quote(name) \o <<")">>
    ELSE <<"d[">> \o Quote(name) \o <<"]">>

\* The keys of a metadata tree, of every level.
RECURSIVE AllMetaKeys(_)
AllMetaKeys(ms) ==
    DOMAIN ms \cup UNION {IF ms[k].HasElem THEN AllMetaKeys(ms[k].Elem.Schema) ELSE {}
                         : k \in DOMAIN ms}

RECURSIVE expandFprint(_, _, _)

\* ExpandNested that looks for the nested tree but emits no function for it.
ExpandNestedNone(needed, sm, bufs, order) ==
    [bufs |-> bufs, ok |-> ~needed \/ sm.Elem # NoMeta]

\* The result of the nested call for sm.Elem, or bufs as they are when the
\* field needs none.
ExpandNested(needed, sm, bufs, order) ==
    IF needed THEN expandFprint(sm.Elem, bufs, order) ELSE [bufs |-> bufs, ok |-> TRUE]

\* case reflect.Slice
ExpandSlice(st, sk, sm, eft, order) ==
    LET fn == sm.Field.Name
        se == Elem(DereferencePtrType(sm.Field.Type))
        e1 == Put(st.e, <<"var s">> \o fn \o <<" []">> \o TypeString(se) \o <<NL>>)
        e2 == Put(e1, <<"u">> \o fn \o <<" := ">> \o expandPrint(eft, sk)
                      \o <<".", "(", "[]interface", "{", "}", ")", NL>>)
        e3 == Put(e2, <<"for _, v := range u">> \o fn \o <<" ", "{", NL>>)
        r == ExpandNested(Kind(se) = "Struct", sm, st.bufs, order)
        e4 == IF ~r.ok THEN Panic(e3)
              ELSE IF Kind(se) = "Struct"
              THEN Put(e3, <<"w = expand">> \o Title(TypeName(se)) \o <<"(", "v.", "(">>
                           \o MapStringInterface \o <<")", ")", NL>>)
              ELSE Put(e3, <<"w := v.", "(">> \o TypeString(se) \o <<")", NL>>)
        e5 == Put(e4, <<"s">> \o fn \o <<" = append", "(", "s">> \o fn \o <<", w", ")", NL>>)
        e6 == Put(e5, <<"}", NL>>)
    IN  [e |-> Put(e6, <<"obj.">> \o fn \o <<" = s">> \o fn \o <<NL>>), bufs |-> r.bufs]

\* ExpandStruct that names the function after the type of the field as it
\* stands, a pointer included, instead of the type of the nested tree.
ExpandStructFieldType(st, sk, sm, eft, order) ==
    LET fn == sm.Field.Name
        r == ExpandNested(TRUE, sm, st.bufs, order)
        e1 == IF ~r.ok THEN Panic(st.e)
              ELSE Put(st.e, <<"m">> \o fn \o <<" := ">> \o expandPrint(eft, sk)
                             \o <<".", "(", "[]interface", "{", "}", ")", "[0].", "(">>
                             \o MapStringInterface \o <<")", NL>>)
    IN  [e |-> Put(e1, <<"obj.">> \o fn \o <<" = expand">> \o Title(TypeName(sm.Field.Type))
                       \o <<"(", "m">> \o fn \o <<")", NL>>),
         bufs |-> r.bufs]

\* case reflect.Struct
ExpandStruct(st, sk, sm, eft, order) ==
    LET fn == sm.Field.Name
        r == ExpandNested(TRUE, sm, st.bufs, order)
        e1 == IF ~r.ok THEN Panic(st.e)
              ELSE Put(st.e, <<"m">> \o fn \o <<" := ">> \o expandPrint(eft, sk)
                             \o <<".", "(", "[]interface", "{", "}", ")", "[0].", "(">>
                             \o MapStringInterface \o <<")", NL>>)
    IN  [e |-> Put(e1, <<"obj.">> \o fn \o <<" = expand">> \o Title(TypeName(sm.Elem.Type))
                       \o <<"(", "m">> \o fn \o <<")", NL>>),
         bufs |-> r.bufs]

\* One pass of the loop over the sorted keys.  A nil node ends the emission
\* in a panic.
ExpandField(st, sk, sm, eft, order) ==
    IF sm = NilMetaSchema THEN [st EXCEPT !.e = Panic(st.e)]
    ELSE LET fk == Kind(DereferencePtrType(sm.Field.Type)) IN
         CASE fk = "Slice" -> ExpandSlice(st, sk, sm, eft, order)
           [] fk = "Struct" -> ExpandStruct(st, sk, sm, eft, order)
           [] OTHER -> [st EXCEPT !.e = Put(st.e, <<"obj.">> \o sm.Field.Name \o <<" = ">>
                                   \o expandPrint(eft, sk)
                                   \o <<".", "(", KindString[fk], ")", NL>>)]

RECURSIVE ExpandFields(_, _, _, _, _)
ExpandFields(st, ms, keys, eft, order) ==
    IF keys = << >> \/ ~st.e.ok THEN st
    ELSE ExpandFields(ExpandField(st, Head(keys), ms[Head(keys)], eft, order),
                      ms, Tail(keys), eft, order)

\* The first two writes of a function: its head and the declaration of obj.
ExpandHead(rt, eft) ==
    LET rs == TypeString(rt)
        lit == IF Head(rs) = "*" THEN <<"&">> \o Tail(rs) ELSE rs
    IN  Put(Put(NewOutput(0),
                <<"func expand">> \o Title(TypeName(rt)) \o <<"(", "d ">> \o eft
                \o <<")", " ">> \o rs \o <<" ", "{", NL>>),
            <<"obj := ">> \o lit \o <<"{", "}", NL>>)

\* expandFprint that appends the buffer of a function after the buffers of
\* the functions it calls.
expandFprintNestedFirst(meta, bufSlice, order) ==
    IF meta = NoMeta THEN [bufs |-> bufSlice, ok |-> FALSE]
    ELSE LET eft == IF Len(bufSlice) + 1 > 1 THEN MapStringInterface ELSE ResourceData
             keys == SortStrings(Range(meta.Schema, order))
             st == ExpandFields([e |-> ExpandHead(meta.Type, eft), bufs |-> bufSlice],
                                meta.Schema, keys, eft, order)
             e == Put(Put(st.e, <<"return obj", NL>>), <<"}">>)
         IN  [bufs |-> Append(st.bufs, e.out), ok |-> e.ok]

\* expandFprint(meta, bufSlice): the buffers, and whether the call returned.
\* The buffer of the call joins bufSlice before any nested call is made, and
\* is filled while the loop runs.
expandFprint(meta, bufSlice, order) ==
    IF meta = NoMeta THEN [bufs |-> bufSlice, ok |-> FALSE]
    ELSE LET mine == Len(bufSlice) + 1
             eft == IF mine > 1 THEN MapStringInterface ELSE ResourceData
             keys == SortStrings(Range(meta.Schema, order))
             st == ExpandFields([e |-> ExpandHead(meta.Type, eft),
                                 bufs |-> Append(bufSlice, << >>)],
                                meta.Schema, keys, eft, order)
             e == Put(Put(st.e, <<"return obj", NL>>), <<"}">>)
         IN  [bufs |-> [st.bufs EXCEPT ![mine] = e.out], ok |-> e.ok]


(***************************************************************************)
(* The two emissions that follow a derivation that returned no error.      *)
(***************************************************************************)
\* g.schemaFprint(w, state.Schema, nil)
PrintSchema ==
    /\ pc = "done" /\ result.err = NoErr
    /\ emit.schema.state = "none"
    /\ \E order \in Visits(AllKeys(result.fields)) :
         emit' = [emit EXCEPT
                    !.schema = Emitted(schemaFprint(NewOutput(0), result.fields, order))]
    /\ UNCHANGED <<stack, pc, err, result, hasFilter, mods, ncalls, lastCall, ferr,
                   cin, cout, tp, sin, un>>

\* g.expandFprint(meta, nil)
PrintExpand ==
    /\ pc = "done" /\ result.err = NoErr
    /\ emit.expand.state = "none"
    /\ \E order \in Visits(AllMetaKeys(result.meta.Schema)) :
         LET r == expandFprint(result.meta, << >>, order) IN
         emit' = [emit EXCEPT
                    !.expand = [state |-> IF r.ok THEN "ok" ELSE "panic", out |-> r.bufs]]
    /\ UNCHANGED <<stack, pc, err, result, hasFilter, mods, ncalls, lastCall, ferr,
                   cin, cout, tp, sin, un>>


NoResult == [fields |-> << >>, meta |-> NoMeta, err |-> NoErr]
NoCall == [fs |-> NewGenFieldState, field |-> NoField, depth |-> 0,
           act |-> "keep", mod |-> "none"]

\* The subject types handed to a derivation.
Subjects == {<<n>> : n \in StructNames}

Init ==
    /\ un = NoName
    /\ \E subj \in Subjects : stack = <<NewFrame(subj)>>
    /\ pc = "running"
    /\ err = NoErr
    /\ result = NoResult
    /\ hasFilter \in BOOLEAN
    /\ mods = 0
    /\ ncalls = 0
    /\ lastCall = NoCall
    /\ ferr = FALSE
    /\ cin = << >>
    /\ cout = "none"
    /\ tp = NoPrinter
    /\ sin = << >>
    /\ emit = NoEmit

Next == \/ ProcessField
        \/ AttachSlice
        \/ AttachStruct
        \/ Promote
        \/ ReturnErr
        \/ Finish
        \/ PrintSchema
        \/ PrintExpand

Spec == Init /\ [][Next]_vars


(***************************************************************************)
(* Runs of the classifier on its own                                       *)
(***************************************************************************)
\* The types handed to typeFor: up to MaxSliceDepth constructors around a
\* base of any kind.
Prefixes(n) == UNION {[1..j -> {"Slice", "Ptr"}] : j \in 0..n}
ClassifierInputs == {p \o <<b>> : p \in Prefixes(MaxSliceDepth), b \in BaseKinds \cup {"Base"}}

InitTypeFor ==
    /\ un = NoName
    /\ cin \in ClassifierInputs
    /\ cout = "none"
    /\ stack = << >>
    /\ pc = "idle"
    /\ err = NoErr
    /\ result = NoResult
    /\ hasFilter = FALSE
    /\ mods = 0
    /\ ncalls = 0
    /\ lastCall = NoCall
    /\ ferr = FALSE
    /\ tp = NoPrinter
    /\ sin = << >>
    /\ emit = NoEmit

Classify ==
    /\ pc = "idle"
    /\ cout = "none"
    /\ cout' = typeFor(Kind(cin), cin)
    /\ UNCHANGED <<stack, pc, err, result, hasFilter, mods, ncalls, lastCall, ferr, cin, tp, sin, emit, un>>

NextTypeFor == Classify

SpecTypeFor == InitTypeFor /\ [][NextTypeFor]_vars


(***************************************************************************)
(* Properties of the derivation                                            *)
(***************************************************************************)
kFoo == <<"f", "o", "o">>
kOne == <<"o", "n", "e">>
kEmb == <<"e", "m", "b">>
kAb == <<"a", "b">>

Terminated == pc \in {"done", "failed"}

\* A schema map and a metadata map have the same keys, an entry holds a
\* nested schema exactly when its node holds a nested tree, and the same is
\* true of every nested pair.
RECURSIVE Symmetrical(_, _)
Symmetrical(fields, meta) ==
    /\ DOMAIN fields = DOMAIN meta
    /\ \A k \in DOMAIN fields \cap DOMAIN meta :
         /\ (fields[k].ElemKind = "resource") <=> meta[k].HasElem
         /\ fields[k].ElemKind = "resource" /\ meta[k].HasElem
               => Symmetrical(fields[k].Elem, meta[k].Elem.Schema)

FilterErrorAborts ==
    [][ferr =>
         /\ ncalls' = ncalls
         /\ err = FilterErr /\ err' = FilterErr
         /\ Len(stack') = Len(stack) - 1
         /\ \A d \in 1..Len(stack') :
               stack'[d].fields = stack[d].fields /\ stack'[d].meta = stack[d].meta
         /\ pc' \in {"running", "failed"}
         /\ pc' = "running" <=> Len(stack') > 0
         /\ pc' = "failed" => result'.err = FilterErr]_vars

\* The filter failed inside a nested derivation, with a field of the outer
\* struct still to come, and the outermost call has returned the error.
FilterErrorWitness ==
    /\ pc = "failed"
    /\ ferr
    /\ result.err = FilterErr
    /\ lastCall.depth = 2
    /\ result.meta.Type = <<"Nested">>
    /\ ncalls = 2

\* C3: a derivation that ends with an error returns no partial schema.
NoPartialSchemaOnError == pc = "failed" => result.fields = << >>

\* The state in which only the promote merge can act.
Promoting == Returned /\ Caller.wait = "struct" /\ Caller.fs.Action = "ActionPromote"

\* C4: a promote merge that meets a key already present at the parent level
\* sets a collision error naming such a key and leaves every entry that was
\* already stored in the schema mapping and in the metadata tree as it was;
\* the error then travels unchanged to the caller of the derivation.
PromoteCollisionIsError ==
    [][/\ Promoting /\ DOMAIN Top.fields \cap DOMAIN Caller.fields # {}
          => /\ err'.kind = "collision"
             /\ err'.key \in DOMAIN Top.fields \cap DOMAIN Caller.fields
             /\ \A k \in DOMAIN Caller.fields :
                   /\ stack'[Len(stack')].fields[k] = Caller.fields[k]
                   /\ stack'[Len(stack')].meta[k] = Caller.meta[k]
       /\ err.kind = "collision"
          => /\ err' = err
             /\ \A d \in 1..Len(stack') :
                   stack'[d].fields = stack[d].fields /\ stack'[d].meta = stack[d].meta
             /\ pc' = "failed" => result'.err = err /\ result'.fields = Top.fields]_vars

\* Clash: the promoted Base brings foo, which the field Foo has committed
\* before, and the derivation has ended with the collision on foo while the
\* entry of the field Foo is still the one stored.
PromoteCollisionWitness ==
    /\ pc = "failed"
    /\ result.err = CollisionErr(kFoo)
    /\ result.meta.Type = <<"Clash">>
    /\ result.fields[kFoo].Type = "TypeBool"
    /\ result.meta.Schema[kFoo].Field.Name = nFoo

\* Twin: the key that collides was merged by an earlier promote.
PromoteTwiceWitness ==
    /\ pc = "failed"
    /\ result.err.kind = "collision"
    /\ result.meta.Type = <<"Twin">>

\* C5: no entry of a schema mapping is ever replaced by a later one: a field
\* whose emitted name is already a key of the mapping ends the derivation
\* with an error.
KeyCollisionIsError ==
    [][\A d \in 1..Len(stack) : d <= Len(stack') =>
          \A k \in DOMAIN stack[d].fields :
             k \in DOMAIN stack'[d].fields /\ stack'[d].fields[k] = stack[d].fields[k]]_vars


\* A step that completes the current field of the call that is innermost
\* after the step.
FieldDone ==
    /\ Len(stack') >= 1
    /\ Len(stack') <= Len(stack)
    /\ stack'[Len(stack')].i = stack[Len(stack')].i + 1

\* The filter has requested ActionPromote for the field that the step
\* completes, and the effective type of the field is a struct.
PromoteAsked ==
    /\ stack'[Len(stack')].asked = "ActionPromote"
    /\ Kind(DereferencePtrType(stack'[Len(stack')].fs.CurrentField.Type)) = "Struct"

\* The step merges the result of the nested call into the waiting call:
\* the entries and nodes of the nested derivation next to those that were
\* there, and nothing else.
MergedExactly ==
    /\ Len(stack) = Len(stack') + 1
    /\ DOMAIN Top.fields \cap DOMAIN Caller.fields = {}
    /\ stack'[Len(stack')].fields = Top.fields @@ Caller.fields
    /\ stack'[Len(stack')].meta = Top.meta @@ Caller.meta

FilterStateIsFresh ==
    ncalls > 0 =>
       /\ lastCall.fs.Action = "ActionDefault"
       /\ lastCall.fs.CurrentSchema = EmptySchema
       /\ lastCall.fs.CurrentName = Underscore(lastCall.field.Name)

\* C8: every derivation returns: the nested calls never pile up until the
\* call stack is exhausted.
DerivationTerminates == pc # "overflow"

(***************************************************************************)
(* Properties of the classifier                                            *)
(***************************************************************************)
\* The rules of the classifier, kind by kind.
RECURSIVE Classified(_)
Classified(t) ==
    LET k == Kind(t) IN
    IF k \in {"Int", "Int8", "Int16", "Int32", "Int64"} THEN "TypeInt"
    ELSE IF k \in {"Uint", "Uint8", "Uint16", "Uint32", "Uint64"} THEN "TypeInt"
    ELSE IF k \in {"Float32", "Float64"} THEN "TypeFloat"
    ELSE IF k = "String" THEN "TypeString"
    ELSE IF k = "Bool" THEN "TypeBool"
    ELSE IF k = "Map" THEN "TypeMap"
    ELSE IF k = "Struct" THEN "TypeList"
    ELSE IF k = "Slice" /\ Classified(Elem(t)) = "TypeList" THEN "TypeSet"
    ELSE IF k = "Slice" THEN "TypeList"
    ELSE "TypeInvalid"

RECURSIVE SliceDepth(_)
SliceDepth(t) == IF Kind(t) = "Slice" THEN 1 + SliceDepth(Elem(t)) ELSE 0
RECURSIVE Innermost(_)
Innermost(t) == IF Kind(t) = "Slice" THEN Innermost(Elem(t)) ELSE t

\* The original statement of C10: a slice whose element is a slice is a set.
NestedCollectionIsSet ==
    cout # "none" /\ Kind(cin) = "Slice" /\ Kind(Elem(cin)) = "Slice" => cout = "TypeSet"

\* C10: a slice whose element is a slice is a set exactly when the element
\* slice is a list: the kind alternates with the nesting depth.  Around an
\* innermost struct the odd depths are sets and the even depths lists, around
\* any other innermost element the even depths are sets and the odd depths
\* lists.
NestedCollectionAlternates ==
    cout # "none" /\ Kind(cin) = "Slice" /\ Kind(Elem(cin)) = "Slice" =>
       cout = IF (Kind(Innermost(cin)) = "Struct") = (SliceDepth(cin) % 2 = 1)
              THEN "TypeSet" ELSE "TypeList"

\* A slice of slices of slices of strings has been classified as a list.
NestedCollectionWitness ==
    cin = <<"Slice", "Slice", "Slice", "String">> /\ cout = "TypeList"

\* The frame of the call that the step continues, after the step.
Done == stack'[Len(stack')]

\* The step commits the entry of the field it completes: the entry and the
\* node of the field are stored under the name of the field.
Commits ==
    /\ FieldDone /\ ~Promoting
    /\ Done.fs.CurrentName \in DOMAIN Done.fields \cap DOMAIN Done.meta
    /\ Done.meta[Done.fs.CurrentName].Field = Done.fs.CurrentField

\* The entry that the step commits, and the effective type of its field.
Committed == Done.fields[Done.fs.CurrentName]
CommittedType == DereferencePtrType(Done.fs.CurrentField.Type)

\* C11: with no filter change to the entry, a committed entry has MaxItems 1
\* exactly when its field is a bare composite: a bare composite field gives
\* List with a nested schema and MaxItems 1, a slice of composites a nested
\* schema without MaxItems, a primitive field neither.
SingletonIffBareComposite ==
    [][(Commits /\ Done.changed \in {"none", "rename"})
         => /\ Committed.MaxItems = 1 <=> Kind(CommittedType) = "Struct"
            /\ Committed.MaxItems \in {0, 1}
            /\ Kind(CommittedType) = "Struct"
                  => /\ Committed.Type = "TypeList"
                     /\ Committed.ElemKind = "resource"
                     /\ Committed.Elem = Top.fields
            /\ (Kind(CommittedType) = "Slice" /\ Kind(Elem(CommittedType)) = "Struct")
                  => /\ Committed.ElemKind = "resource"
                     /\ Committed.Elem = Top.fields
                     /\ Committed.MaxItems = 0
            /\ Kind(CommittedType) \notin {"Struct", "Slice"}
                  => /\ Committed.ElemKind = "none"
                     /\ Committed.MaxItems = 0]_vars

\* SliceC has returned with its slice of composites and its slice of
\* strings committed, and Nested with its bare composite and its string.
SingletonWitness ==
    /\ Terminated /\ err = NoErr /\ ~hasFilter
    /\ result.meta.Type = <<"Nested">>
    /\ result.fields[<<"b", "a", "s", "e">>].MaxItems = 1
    /\ result.fields[kOne].MaxItems = 0


(***************************************************************************)
(* A run of the printer: one newline-terminated line is written through a  *)
(* printer in fragments, and through another one, which starts in the same *)
(* state, in a single write.                                               *)
(***************************************************************************)
LineTokens == {"{", "}", "(", ")", "a"}

RECURSIVE SeqsUpTo(_, _)
SeqsUpTo(S, n) ==
    IF n = 0 THEN {<< >>}
    ELSE LET R == SeqsUpTo(S, n - 1)
         IN  R \cup {Append(r, x) : r \in {q \in R : Len(q) = n - 1}, x \in S}

Lines == {Append(l, NL) : l \in SeqsUpTo(LineTokens, MaxLine)}

\* A printer and what it has written.
Writer(tc) == [p |-> NewTabPrinter(tc), w |-> << >>]

Write(x, s) == LET r == Fprintf(x.p, s) IN [p |-> r.p, w |-> x.w \o r.out]

InitTabPrinter ==
    /\ un = NoName
    /\ \E tc \in 0..MaxTabs, l \in Lines :
         tp = [line |-> l, tc0 |-> tc, todo |-> l, cuts |-> << >>,
               frag |-> Writer(tc), whole |-> Writer(tc), done |-> FALSE]
    /\ stack = << >>
    /\ pc = "printing"
    /\ err = NoErr
    /\ result = NoResult
    /\ hasFilter = FALSE
    /\ mods = 0
    /\ ncalls = 0
    /\ lastCall = NoCall
    /\ ferr = FALSE
    /\ cin = << >>
    /\ cout = "none"
    /\ sin = << >>
    /\ emit = NoEmit

\* The next fragment of the line goes through the first printer.
WriteFragment ==
    /\ pc = "printing"
    /\ tp.todo # << >>
    /\ \E n \in 1..Len(tp.todo) :
         LET s == SubSeq(tp.todo, 1, n) IN
         tp' = [tp EXCEPT !.todo = SubSeq(tp.todo, n + 1, Len(tp.todo)),
                          !.cuts = Append(tp.cuts, s),
                          !.frag = Write(tp.frag, s)]
    /\ UNCHANGED <<stack, pc, err, result, hasFilter, mods, ncalls, lastCall, ferr,
                   cin, cout, sin, emit, un>>

\* The whole line goes through the second printer.
WriteLine ==
    /\ pc = "printing"
    /\ ~tp.done
    /\ tp' = [tp EXCEPT !.done = TRUE, !.whole = Write(tp.whole, tp.line)]
    /\ UNCHANGED <<stack, pc, err, result, hasFilter, mods, ncalls, lastCall, ferr,
                   cin, cout, sin, emit, un>>

NextTabPrinter == WriteFragment \/ WriteLine

SpecTabPrinter == InitTabPrinter /\ [][NextTabPrinter]_vars


(***************************************************************************)
(* Properties of the printer                                               *)
(***************************************************************************)
\* The first delimiter of s: "open", "close", or "none" when it has none.
FirstDelimiter(s) ==
    LET D == {i \in 1..Len(s) : s[i] \in Opening \cup Closing} IN
    IF D = {} THEN "none"
    ELSE LET i == CHOOSE i \in D : \A j \in D : i <= j
         IN  IF s[i] \in Closing THEN "close" ELSE "open"

\* What a write of s after the printer state p must put in front of s.
Prefix(p, s) ==
    LET depth == IF FirstDelimiter(s) # "close" THEN p.tc
                 ELSE IF p.tc = 0 THEN 0 ELSE p.tc - 1
    IN  IF p.lbuf # << >> THEN << >> ELSE [i \in 1..depth |-> TAB]

\* C18: every write through the printer is prefixed with exactly depth tabs,
\* depth taken after the write's own outdent (one less, not below zero, when
\* the first delimiter of the text is a closing one), unless the writes
\* before left a line without its newline, and then with nothing.
WritePrefixed ==
    [][/\ tp'.cuts # tp.cuts
          => LET s == tp'.cuts[Len(tp'.cuts)] IN
             tp'.frag.w = tp.frag.w \o Prefix(tp.frag.p, s) \o s
       /\ tp'.done # tp.done
          => tp'.whole.w = tp.whole.w \o Prefix(tp.whole.p, tp.line) \o tp.line]_vars

\* From depth 2 the line "a", "}", newline has gone through in the
\* fragments "a" and "}" newline: the second write took a level off and,
\* with a line in flight, was not indented.
WritePrefixedWitness ==
    /\ pc = "printing" /\ tp.tc0 = 2
    /\ tp.cuts = << <<"a">>, <<"}", NL>> >>
    /\ tp.frag.w = <<TAB, TAB, "a", "}", NL>>
    /\ tp.frag.p.tc = 1

\* The line has gone through both printers.
LineWritten == pc = "printing" /\ tp.todo = << >> /\ tp.done

\* The original statement of C19: a line written in fragments gives the
\* same output and leaves the same depth as the line written in one write
\* from the same starting state, wherever the line is split.
FragmentsEquivalent == LineWritten => tp.frag = tp.whole

\* No fragment after the first has a closing delimiter as its first
\* delimiter, and a closing delimiter that is the first of the line lies in
\* the first fragment.
SplitAligned ==
    /\ \A i \in 2..Len(tp.cuts) : FirstDelimiter(tp.cuts[i]) # "close"
    /\ FirstDelimiter(tp.line) = "close" => FirstDelimiter(tp.cuts[1]) = "close"

\* C19: a line written in fragments gives the same output and leaves the
\* same depth as the line written in one write from the same starting
\* state, provided that no fragment after the first has a closing delimiter
\* as its first delimiter and that the first fragment holds the first
\* delimiter of the line when that one is closing.
AlignedFragmentsEquivalent == (LineWritten /\ SplitAligned) => tp.frag = tp.whole

\* From depth 2 the line "}", "a", "{", newline has gone through in the
\* fragments "}", then "a" "{", then the newline, and in one write.
AlignedFragmentsWitness ==
    /\ LineWritten /\ tp.tc0 = 2
    /\ tp.cuts = << <<"}">>, <<"a", "{">>, <<NL>> >>
    /\ tp.frag.w = <<TAB, "}", "a", "{", NL>>
    /\ tp.whole.p.tc = 1


(***************************************************************************)
(* A run of the serializer on a schema mapping that a caller hands in.     *)
(***************************************************************************)
MaxNest == 1

kA == <<"a">>
kB == <<"b">>

\* Entries without a nested schema: a Default of a type valToStr knows or
\* does not know, a Description with or without a delimiter, and an Elem
\* that is nil, a *schema.Schema or something else.
LeafEntries ==
    {[EmptySchema EXCEPT !.Type = "TypeString", !.Default = d, !.Description = t,
                         !.ElemKind = ek,
                         !.ElemType = IF ek = "schema" THEN "TypeString" ELSE "TypeInvalid"]
       : d \in {"nil", "string", "float64"},
         t \in {<< >>, <<"(">>, <<")">>},
         ek \in {"none", "schema", "other"}}

\* The mappings with keys among K and entries among E.
MapsOver(K, E) == UNION {[D -> E] : D \in SUBSET K}

RECURSIVE SerializerEntries(_)
SerializerEntries(n) ==
    IF n = 0 THEN LeafEntries
    ELSE LeafEntries \cup
         {[EmptySchema EXCEPT !.Type = "TypeList", !.ElemKind = "resource", !.Elem = mp]
            : mp \in MapsOver({kA}, SerializerEntries(n - 1))}

SerializerInputs == MapsOver({kAb, kB}, SerializerEntries(MaxNest))

\* The writers handed to schemaFprint: one that takes every write, one that
\* fails at once, and one that fails after MaxWrites writes.
MaxWrites == 5
Rooms == {NeverFails, 0, MaxWrites}

InitFprint ==
    /\ un = NoName
    /\ sin \in SerializerInputs
    /\ emit = NoEmit
    /\ stack = << >>
    /\ pc = "serializing"
    /\ err = NoErr
    /\ result = NoResult
    /\ hasFilter = FALSE
    /\ mods = 0
    /\ ncalls = 0
    /\ lastCall = NoCall
    /\ ferr = FALSE
    /\ cin = << >>
    /\ cout = "none"
    /\ tp = NoPrinter

\* g.schemaFprint(w, s, nil)
Serialize ==
    /\ pc = "serializing"
    /\ emit.schema.state = "none"
    /\ \E order \in Visits(AllKeys(sin)), room \in Rooms :
         emit' = [emit EXCEPT
                    !.schema = Emitted(schemaFprint([NewOutput(0) EXCEPT !.room = room],
                                                    sin, order))]
    /\ UNCHANGED <<stack, pc, err, result, hasFilter, mods, ncalls, lastCall, ferr,
                   cin, cout, tp, sin, un>>

NextFprint == Serialize

SpecFprint == InitFprint /\ [][NextFprint]_vars


(***************************************************************************)
(* Properties of the serializer                                            *)
(***************************************************************************)
\* A serialization has returned; and every write of it was taken.
Serialized == pc = "serializing" /\ emit.schema.state = "ok"
Written == Serialized /\ ~emit.schema.werr

\* C15: in the text of a serialization that started at depth 0 and whose
\* writes were all taken, the closing
\* delimiter of the top-level block is followed by the newline without a
\* separator, and every other closing delimiter, that of a nested schema
\* block included, is followed by the separator.
CommaAfterNestedOnly ==
    Written =>
        LET out == emit.schema.out IN
        /\ out[Len(out) - 1] = "}" /\ out[Len(out)] = NL
        /\ \A i \in 1..(Len(out) - 2) : out[i] = "}" => out[i + 1] = ","

\* Some entry of the mapping, at some level, holds a Default of a type that
\* valToStr does not know, or an Elem that is neither a *schema.Schema nor a
\* *schema.Resource.
RECURSIVE HasUnrenderable(_)
HasUnrenderable(s) ==
    \E k \in DOMAIN s :
        \/ s[k].Default \notin {"nil", "int", "string", "bool"}
        \/ s[k].ElemKind \notin {"none", "schema", "resource"}
        \/ s[k].ElemKind = "resource" /\ HasUnrenderable(s[k].Elem)

\* C16: a serialization of a mapping that holds, at any level, a Default or
\* an Elem that the serializer has no rule for does not return: it halts.
UnrenderableHalts ==
    (pc = "serializing" /\ emit.schema.state # "none" /\ HasUnrenderable(sin))
        => emit.schema.state = "panic"


(***************************************************************************)
(* Properties of the derivation together with its emissions                *)
(***************************************************************************)
\* The text holds the tokens of pat, one after the other.
Mentions(text, pat) ==
    \E i \in 1..(Len(text) - Len(pat) + 1) : SubSeq(text, i, i + Len(pat) - 1) = pat

\* The declared fields of the subject of the derivation that returned, and
\* those among them whose type has no value-kind.
RootFields == {Field(result.meta.Type, i) : i \in 0..(NumField(result.meta.Type) - 1)}
Opaque(f) == Kind(DereferencePtrType(f.Type)) \in OtherKinds

\* C12: a field whose effective type has no value-kind, and to which no
\* filter gave a value-kind or another type, leaves the schema mapping and
\* the metadata tree of its level as they were, with no error; and after a
\* derivation without filter changes neither emission mentions the field,
\* both return, and the mapping holds the keys of the other fields.
UnclassifiableIsAbsent ==
    [][/\ (/\ FieldDone /\ Opaque(Done.fs.CurrentField)
           /\ Done.changed \notin {"kindString", "kindList", "redirect"})
          => /\ Len(stack') = Len(stack)
             /\ Done.fields = Top.fields /\ Done.meta = Top.meta
             /\ err' = NoErr /\ pc' = pc
       /\ (emit' # emit /\ mods = 0)
          => /\ emit'.schema.state \in {"none", "ok"}
             /\ emit'.expand.state \in {"none", "ok"}
             /\ DOMAIN result.fields = {Underscore(f.Name) : f \in {g \in RootFields : ~Opaque(g)}}
             /\ DOMAIN result.meta.Schema = DOMAIN result.fields
             /\ \A f \in {g \in RootFields : Opaque(g)} :
                  /\ ~Mentions(emit'.schema.out, Quote(Underscore(f.Name)))
                  /\ emit'.expand.state = "ok"
                       => ~Mentions(emit'.expand.out[1], <<"obj.">> \o f.Name)]_vars

\* Mixed has been derived without a filter and both emissions have
\* returned: the mapping holds the key of One alone, and the expand function
\* assigns One.
UnclassifiableWitness ==
    /\ pc = "done" /\ ~hasFilter /\ result.meta.Type = <<"Mixed">>
    /\ emit.schema.state = "ok" /\ emit.expand.state = "ok"
    /\ DOMAIN result.fields = {kOne}
    /\ Mentions(emit.expand.out[1], <<"obj.">> \o nOne)
    /\ Mentions(emit.schema.out, Quote(kOne))

\* The nodes of the returned metadata tree whose field is an opaque field
\* of the subject that a filter has given the type RedirectTo.
Redirected ==
    {k \in DOMAIN result.meta.Schema :
       /\ result.meta.Schema[k].Field.Type = RedirectTo
       /\ \E f \in RootFields : Opaque(f) /\ f.Name = result.meta.Schema[k].Field.Name}

\* The function that a buffer of the expand emitter defines.
FunctionOf(buf) == buf[2]

\* C13: a field of opaque type to which a filter has given a pointer to a
\* composite type is derived as a field declared with that type: its entry
\* is a List with MaxItems 1 that holds the schema of the composite, its
\* node holds the metadata tree of the composite, and the expand function
\* calls the expand function of the composite, which is emitted too.
RedirectDerivesConcrete ==
    [][/\ (Commits /\ Done.changed = "redirect")
          => /\ Len(stack') = Len(stack) - 1
             /\ Top.subj = DereferencePtrType(RedirectTo)
             /\ Committed.Type = "TypeList" /\ Committed.MaxItems = 1
             /\ Committed.ElemKind = "resource" /\ Committed.Elem = Top.fields
             /\ Done.meta[Done.fs.CurrentName].HasElem
             /\ Done.meta[Done.fs.CurrentName].Elem = [Type |-> Top.subj, Schema |-> Top.meta]
       /\ (emit'.expand # emit.expand /\ Redirected # {})
          => /\ mods = 1 => emit'.expand.state = "ok"
             /\ emit'.expand.state = "ok"
                  => \A k \in Redirected :
                       /\ Mentions(emit'.expand.out[1],
                                   <<"obj.">> \o result.meta.Schema[k].Field.Name
                                   \o <<" = expand", Head(DereferencePtrType(RedirectTo)), "(">>)
                       /\ \E j \in 2..Len(emit'.expand.out) :
                            FunctionOf(emit'.expand.out[j]) = Head(DereferencePtrType(RedirectTo))]_vars

\* Iface has been derived with a filter that gave Any the type *Base and
\* changed nothing else, and the expand emitter has returned two functions.
RedirectWitness ==
    /\ pc = "done" /\ result.meta.Type = <<"Iface">> /\ mods = 1
    /\ Redirected = {<<"a", "n", "y">>}
    /\ result.fields[<<"a", "n", "y">>].MaxItems = 1
    /\ result.fields[<<"a", "n", "y">>].Elem = (kFoo :> [EmptySchema EXCEPT !.Type = "TypeString"])
    /\ emit.expand.state = "ok" /\ Len(emit.expand.out) = 2

\* a comes before b in the lexicographic order of the character codes.
Before(a, b) ==
    /\ a # b
    /\ \E i \in 1..(Len(a) + 1) :
         /\ i <= Len(b) + 1
         /\ \A j \in 1..(i - 1) : a[j] = b[j]
         /\ IF i > Len(a) THEN TRUE
            ELSE IF i > Len(b) THEN FALSE
            ELSE Code(a[i]) < Code(b[i])

\* The keys of S in ascending order, each once.
RECURSIVE Ascending(_)
Ascending(S) ==
    IF S = {} THEN << >>
    ELSE LET least == CHOOSE x \in S : \A y \in S \ {x} : Before(x, y)
         IN  <<least>> \o Ascending(S \ {least})

\* The lines of a text, without their newlines.
RECURSIVE SplitLines(_, _)
SplitLines(text, line) ==
    IF text = << >> THEN (IF line = << >> THEN << >> ELSE <<line>>)
    ELSE IF Head(text) = NL THEN <<line>> \o SplitLines(Tail(text), << >>)
    ELSE SplitLines(Tail(text), Append(line, Head(text)))

\* The positions of the quotes of a line, and the text between the first
\* two of them.
QuotesOf(line) == {i \in 1..Len(line) : line[i] = "\""}
Least(S) == CHOOSE i \in S : \A j \in S : i <= j
Quoted(line) ==
    LET a == Least(QuotesOf(line))
        b == Least(QuotesOf(line) \ {a})
    IN  SubSeq(line, a + 1, b - 1)

\* The number of tabs at the start of a line.
RECURSIVE Indent(_)
Indent(line) == IF line # << >> /\ Head(line) = TAB THEN 1 + Indent(Tail(line)) ELSE 0

\* The lines of a serialized text that open an entry, as pairs of depth and
\* key, in the order of the text.
IsEntryLine(line) == Len(line) > Indent(line) /\ line[Indent(line) + 1] = "\""
ListedEntries(text) ==
    LET ls == SelectSeq(SplitLines(text, << >>), IsEntryLine)
    IN  [i \in 1..Len(ls) |-> <<Indent(ls[i]), Quoted(ls[i])>>]

\* The keys that a function body reads, in the order of the text.
ListedReads(text) ==
    LET ls == SelectSeq(SplitLines(text, << >>), LAMBDA l : QuotesOf(l) # {})
    IN  [i \in 1..Len(ls) |-> Quoted(ls[i])]

\* The entries of a mapping, level by level: ascending at each level, the
\* entries of a nested schema right after the entry that holds it, three
\* levels further in.
RECURSIVE EntriesInOrder(_, _, _)
EntriesInOrder(s, keys, depth) ==
    IF keys = << >> THEN << >>
    ELSE LET k == Head(keys) IN
         <<<<depth, k>>>>
         \o (IF s[k].ElemKind = "resource"
             THEN EntriesInOrder(s[k].Elem, Ascending(DOMAIN s[k].Elem), depth + 3)
             ELSE << >>)
         \o EntriesInOrder(s, Tail(keys), depth)

\* The node makes the expand emitter emit a function of its own.
HasFunction(node) ==
    LET t == DereferencePtrType(node.Field.Type) IN
    \/ Kind(t) = "Struct"
    \/ Kind(t) = "Slice" /\ Kind(Elem(t)) = "Struct"

\* The keys that each function reads, function by function: ascending in
\* each, the functions of the nested trees after the function of the tree.
RECURSIVE ReadsInOrder(_)
RECURSIVE ReadsBelow(_, _)
ReadsBelow(ms, keys) ==
    IF keys = << >> THEN << >>
    ELSE (IF HasFunction(ms[Head(keys)]) THEN ReadsInOrder(ms[Head(keys)].Elem.Schema)
          ELSE << >>)
         \o ReadsBelow(ms, Tail(keys))
ReadsInOrder(ms) == <<Ascending(DOMAIN ms)>> \o ReadsBelow(ms, Ascending(DOMAIN ms))

\* C14: for every derived mapping the serialized text lists the keys of each
\* level in ascending lexicographic order, each once, and so does each
\* function of the expand emitter, whatever the order of the declarations
\* and the order in which the ranges over the maps visit the keys.
KeysAscending ==
    [][/\ emit'.schema # emit.schema
          => /\ emit'.schema.state = "ok"
             /\ ListedEntries(emit'.schema.out)
                  = EntriesInOrder(result.fields, Ascending(DOMAIN result.fields), 1)
       /\ (emit'.expand # emit.expand /\ emit'.expand.state = "ok")
          => [j \in 1..Len(emit'.expand.out) |-> ListedReads(emit'.expand.out[j])]
               = ReadsInOrder(result.meta.Schema)]_vars

\* Clash declares Foo before Base: both emissions have listed base before
\* foo.
KeysAscendingWitness ==
    /\ pc = "done" /\ ~hasFilter /\ result.meta.Type = <<"Clash">>
    /\ emit.schema.state = "ok" /\ emit.expand.state = "ok"
    /\ ListedEntries(emit.schema.out)
         = << <<1, <<"b", "a", "s", "e">> >>, <<4, kFoo>>, <<1, kFoo>> >>
    /\ ListedReads(emit.expand.out[1]) = << <<"b", "a", "s", "e">>, kFoo >>

\* C17: the derivation is deterministic.  Every step but the promote merge
\* is a function of the state and of what the filter does, so two runs on
\* the same subject with the same filter agree exactly when the outcome of
\* each promote merge (the mapping, the metadata tree, and the error with
\* the key it names) is the same for every order in which the range over
\* the nested mapping can visit its keys.
DerivationDeterministic ==
    [][Promoting
         => \A o \in Orders(DOMAIN Top.fields) :
              LET r == PromoteMerge(Caller.fields, Caller.meta, Top.fields, Top.meta, o) IN
              /\ err' = r.err
              /\ Done.fields = r.fields
              /\ Done.meta = r.meta]_vars

\* The functions that the text of a function calls.
CallsOf(buf) ==
    {buf[i + 1] : i \in {j \in 1..(Len(buf) - 1) : buf[j] \in {"w = expand", " = expand"}}}

Expanded == pc = "done" /\ emit.expand.state = "ok"

\* The original statement of C20: in the buffers that the expand emitter
\* returns, the function of every nested composite type comes before the
\* function that calls it.
NestedFunctionsFirst ==
    Expanded =>
        \A j \in 1..Len(emit.expand.out) : \A callee \in CallsOf(emit.expand.out[j]) :
            \E i \in 1..(j - 1) : FunctionOf(emit.expand.out[i]) = callee

\* C20: in the buffers that the expand emitter returns, the function of the
\* subject comes first, and the function of every nested composite type
\* comes after the function that calls it.
CallerFunctionsFirst ==
    Expanded =>
        /\ FunctionOf(emit.expand.out[1]) = Head(DereferencePtrType(result.meta.Type))
        /\ \A j \in 1..Len(emit.expand.out) : \A callee \in CallsOf(emit.expand.out[j]) :
             \E i \in (j + 1)..Len(emit.expand.out) : FunctionOf(emit.expand.out[i]) = callee

\* Embedded has been expanded without a filter: its function, then the one
\* of Nested, which it calls, then the one of Base, which Nested calls.
CallerFunctionsWitness ==
    /\ Expanded /\ ~hasFilter /\ result.meta.Type = <<"Embedded">>
    /\ [j \in 1..Len(emit.expand.out) |-> FunctionOf(emit.expand.out[j])]
         = <<"Embedded", "Nested", "Base">>
    /\ CallsOf(emit.expand.out[1]) = {"Nested"}
    /\ CallsOf(emit.expand.out[2]) = {"Base"}

\* The type of the parameter d in the head of a function, and the ways in
\* which its body reads from d.
ParameterOf(buf) == SubSeq(buf, 5, Least({i \in 5..Len(buf) : buf[i] = ")"}) - 1)
ReadIdioms(buf) == {buf[i] : i \in {j \in 1..Len(buf) : buf[j] \in {"d.Get", "d["}}}

\* C21: of the functions of an expand emission that started with an empty
\* accumulator, the first (the one of the root type) takes a
\* *schema.ResourceData and reads with d.Get only, and every other one
\* takes a map[string]interface{} and reads by indexing only.
AccessorByLevel ==
    Expanded =>
        \A j \in 1..Len(emit.expand.out) :
            LET buf == emit.expand.out[j] IN
            IF j = 1
            THEN /\ FunctionOf(buf) = Head(DereferencePtrType(result.meta.Type))
                 /\ ParameterOf(buf) = ResourceData
                 /\ ReadIdioms(buf) \subseteq {"d.Get"}
            ELSE /\ ParameterOf(buf) = MapStringInterface
                 /\ ReadIdioms(buf) \subseteq {"d["}

\* Twin has been expanded without a filter: its function reads A and B with
\* d.Get, and the two functions of Wide, one for each sibling, read by
\* indexing.
AccessorByLevelWitness ==
    /\ Expanded /\ ~hasFilter /\ result.meta.Type = <<"Twin">>
    /\ Len(emit.expand.out) = 3
    /\ ReadIdioms(emit.expand.out[1]) = {"d.Get"}
    /\ ReadIdioms(emit.expand.out[2]) = {"d["}
    /\ ReadIdioms(emit.expand.out[3]) = {"d["}
    /\ ListedReads(emit.expand.out[3]) = <<kFoo, kOne>>

\* The call that completes a field in the step, as it was before the step,
\* and the field as the subject declares it.
Waiting == IF Len(stack') = Len(stack) THEN Top ELSE Caller
Declared == Field(Waiting.subj, Waiting.i)

\* The nodes of the returned metadata tree that a filter has renamed.
Renamed == {k \in DOMAIN result.meta.Schema : k # Underscore(result.meta.Schema[k].Field.Name)}

\* C22: a step that commits a field which the filter has renamed, and done
\* nothing else to, leaves the mapping and the metadata tree that the step
\* would leave without the filter, but for the key: the entry has the
\* value-kind of the declared type and no attribute set, the node holds the
\* declared field, and every other key holds what it held; and the expand
\* function reads the new key, and assigns it to the declared field with
\* the assertion of the declared type.
RenameChangesKeyOnly ==
    [][/\ (Commits /\ Done.changed = "rename")
          => LET old == Underscore(Declared.Name)
                 t == DereferencePtrType(Declared.Type)
                 plainFields == (old :> Committed) @@ Waiting.fields
                 plainMeta == (old :> Done.meta[RenameTo]) @@ Waiting.meta
             IN  /\ Done.fs.CurrentName = RenameTo
                 /\ Committed.Type = typeFor(Kind(t), t)
                 /\ [Committed EXCEPT !.Type = "TypeInvalid", !.ElemKind = "none",
                                      !.ElemType = "TypeInvalid", !.Elem = << >>,
                                      !.MaxItems = 0] = EmptySchema
                 /\ Done.meta[RenameTo].Field = Declared
                 /\ DOMAIN Done.fields = (DOMAIN plainFields \ {old}) \cup {RenameTo}
                 /\ DOMAIN Done.meta = (DOMAIN plainMeta \ {old}) \cup {RenameTo}
                 /\ \A k \in DOMAIN plainFields \ {old, RenameTo} : Done.fields[k] = plainFields[k]
                 /\ \A k \in DOMAIN plainMeta \ {old, RenameTo} : Done.meta[k] = plainMeta[k]
                 /\ RenameTo # old => RenameTo \notin DOMAIN plainFields \cup DOMAIN plainMeta
       /\ (emit'.expand # emit.expand /\ emit'.expand.state = "ok")
          => \A k \in Renamed :
               LET f == result.meta.Schema[k].Field
                   fk == Kind(DereferencePtrType(f.Type))
               IN  fk \notin {"Slice", "Struct"}
                     => Mentions(emit'.expand.out[1],
                                 <<"obj.">> \o f.Name \o <<" = ">> \o expandPrint(ResourceData, k)
                                 \o <<".", "(", KindString[fk], ")", NL>>)]_vars

(***************************************************************************)
(* A run of the naming transform on an identifier.                         *)
(***************************************************************************)
MaxName == 4

\* The identifiers handed to Underscore: up to MaxName letters, lower-case
\* and capital.
Letters == {"a", "b", "A", "B"}
Identifiers == UNION {[1..n -> Letters] : n \in 1..MaxName}

InitUnderscore ==
    /\ un \in {[name |-> n, key |-> << >>, state |-> "none"] : n \in Identifiers}
    /\ pc = "naming"
    /\ stack = << >>
    /\ err = NoErr
    /\ result = NoResult
    /\ hasFilter = FALSE
    /\ mods = 0
    /\ ncalls = 0
    /\ lastCall = NoCall
    /\ ferr = FALSE
    /\ cin = << >>
    /\ cout = "none"
    /\ tp = NoPrinter
    /\ sin = << >>
    /\ emit = NoEmit

\* fs.CurrentName = u.Underscore(fs.CurrentField.Name)
Name ==
    /\ pc = "naming"
    /\ un.state = "none"
    /\ un' = [un EXCEPT !.key = Underscore(un.name), !.state = "done"]
    /\ UNCHANGED <<stack, pc, err, result, hasFilter, mods, ncalls, lastCall, ferr,
                   cin, cout, tp, sin, emit>>

NextUnderscore == Name

SpecUnderscore == InitUnderscore /\ [][NextUnderscore]_vars

\* The text without its underscores.
StripUnderscores(s) == SelectSeq(s, LAMBDA c : c # "_")

\* The identifier is made of capitalised words: a capital and one or more
\* lower-case letters, once or more.
CapitalisedWords(s) ==
    /\ s # << >> /\ s[1] \in Upper /\ s[Len(s)] \notin Upper
    /\ \A i \in 1..(Len(s) - 1) : ~(s[i] \in Upper /\ s[i + 1] \in Upper)

\* The lower-cased words of an identifier of capitalised words, joined by
\* single underscores.
RECURSIVE SnakeFrom(_, _)
SnakeFrom(s, i) ==
    IF i > Len(s) THEN << >>
    ELSE (IF s[i] \in Upper /\ i > 1 THEN <<"_">> ELSE << >>)
         \o ToLower(<<s[i]>>) \o SnakeFrom(s, i + 1)

\* C23: the key that Underscore gives for an identifier of letters is the
\* lower-cased identifier once its underscores are taken out, and for an
\* identifier of capitalised words it is the lower-cased words joined by
\* single underscores.
UnderscoreKeepsLetters ==
    (pc = "naming" /\ un.state = "done")
        => /\ StripUnderscores(un.key) = ToLower(un.name)
           /\ CapitalisedWords(un.name) => un.key = SnakeFrom(un.name, 1)

\* The value-kind that the filter has set in its invocation for the field
\* that the step completes.
FilterKind ==
    CASE Done.changed = "kindString" -> "TypeString"
      [] Done.changed = "kindList" -> "TypeList"
      [] OTHER -> "TypeInvalid"

\* C24: an entry that is committed for a field to which the filter gave a
\* value-kind has that value-kind, whatever the classifier says of the type
\* of the field; and a field of a type without a value-kind to which the
\* filter gave one is committed, with that value-kind and under its key,
\* unless ActionSkip is in force for it.
FilterKindKept ==
    [][/\ (Commits /\ FilterKind # "TypeInvalid") => Committed.Type = FilterKind
       /\ (/\ FieldDone /\ FilterKind # "TypeInvalid"
           /\ Opaque(Declared) /\ Done.fs.Action # "ActionSkip")
          => /\ Commits
             /\ Len(stack') = Len(stack)
             /\ Done.fs.CurrentName = Underscore(Declared.Name)
             /\ Committed.Type = FilterKind
             /\ err' = NoErr]_vars

\* Iface has been derived with a filter that gave Any the value-kind
\* String: the mapping holds the entry of Any, a String.
FilterKindWitness ==
    /\ pc = "done" /\ result.meta.Type = <<"Iface">> /\ mods = 1
    /\ DOMAIN result.fields = {<<"a", "n", "y">>}
    /\ result.fields[<<"a", "n", "y">>].Type = "TypeString"
    /\ result.meta.Schema[<<"a", "n", "y">>].Field.Type = <<"Interface">>

\* The type is a collection of composites, or of pointers to them.
CollectionOfComposites(t) ==
    Kind(t) = "Slice" /\ Kind(DereferencePtrType(Elem(t))) = "Struct"

\* C25: a field that is a collection of composites, with pointers around
\* the elements or without, and to which the filter did nothing, is
\* committed as a Set that holds the schema of the element composite, with
\* a node that holds the metadata tree of the element composite; and the
\* expand function of the level calls the expand function of the element
\* type in its loop.
PointerElementsAsComposites ==
    [][/\ (Commits /\ Done.changed = "none" /\ CollectionOfComposites(CommittedType))
          => /\ Len(stack') = Len(stack) - 1
             /\ Top.subj = DereferencePtrType(Elem(CommittedType))
             /\ Committed.Type = "TypeSet"
             /\ Committed.ElemKind = "resource" /\ Committed.Elem = Top.fields
             /\ Done.meta[Done.fs.CurrentName].HasElem
             /\ Done.meta[Done.fs.CurrentName].Elem = [Type |-> Top.subj, Schema |-> Top.meta]
       /\ (emit'.expand # emit.expand /\ emit'.expand.state = "ok")
          => \A k \in DOMAIN result.meta.Schema :
               LET t == DereferencePtrType(result.meta.Schema[k].Field.Type) IN
               CollectionOfComposites(t)
                 => Mentions(emit'.expand.out[1],
                             <<"w = expand", Head(DereferencePtrType(Elem(t))), "(">>)]_vars

\* No key, Description or InputDefault of the mapping, at any level, holds a
\* delimiter.
RECURSIVE DelimiterFree(_)
DelimiterFree(s) ==
    \A k \in DOMAIN s :
        /\ \A str \in {k, s[k].Description, s[k].InputDefault} :
             CountIn(str, Opening \cup Closing) = 0
        /\ s[k].ElemKind = "resource" => DelimiterFree(s[k].Elem)

\* The number of tokens of s that are in D, and the lines of a text without
\* their newlines, both without recursion over the text.
Occurrences(s, D) == Cardinality({i \in 1..Len(s) : s[i] \in D})
LineEnds(text) == {i \in 1..Len(text) : text[i] = NL}
LineEnd(text, j) == CHOOSE i \in LineEnds(text) : Occurrences(SubSeq(text, 1, i), {NL}) = j
LineStart(text, j) == IF j = 1 THEN 1 ELSE LineEnd(text, j - 1) + 1
LinesOf(text) ==
    [j \in 1..Cardinality(LineEnds(text)) |->
       SubSeq(text, LineStart(text, j), LineEnd(text, j) - 1)]

\* The nesting level of line j of a text: the number of opening delimiters
\* less the number of closing ones before the line, less one when the first
\* delimiter of the line is a closing one.
LevelOf(text, j) ==
    LET before == SubSeq(text, 1, LineStart(text, j) - 1) IN
    Occurrences(before, Opening) - Occurrences(before, Closing)
      - (IF FirstDelimiter(LinesOf(text)[j]) = "close" THEN 1 ELSE 0)

\* C26: the text that a serialization from depth 0 of a mapping without
\* delimiters in its keys and texts has written to a writer that took every
\* write, once it has returned:
\* every line starts with as many tabs as its nesting level and holds no
\* other tab, no line closes more than is open, the text ends with a
\* newline, and the printer is left at depth 0 with an empty line buffer.
IndentFollowsNesting ==
    (Written /\ DelimiterFree(sin))
        => LET out == emit.schema.out
               ls == LinesOf(out)
           IN  /\ \A j \in 1..Len(ls) :
                    /\ Indent(ls[j]) = LevelOf(out, j) /\ LevelOf(out, j) >= 0
                    /\ Occurrences(ls[j], {TAB}) = Indent(ls[j])
               /\ out # << >> /\ out[Len(out)] = NL
               /\ emit.schema.p = NewTabPrinter(0)

\* A mapping with a nested schema has been serialized: the entry of the
\* nested schema is four levels in, and the printer is back at depth 0.
IndentFollowsNestingWitness ==
    /\ Written /\ DelimiterFree(sin)
    /\ DOMAIN sin = {kAb, kB} /\ sin[kB].ElemKind = "resource" /\ DOMAIN sin[kB].Elem = {kA}
    /\ <<4, kA>> \in {ListedEntries(emit.schema.out)[i] : i \in 1..Len(ListedEntries(emit.schema.out))}
    /\ emit.schema.p = NewTabPrinter(0)

\* The types of a metadata tree in pre-order: the type of the tree, then for
\* every node that holds a nested tree, in ascending order of the keys, the
\* types of the nested tree.
RECURSIVE TreeOrder(_)
RECURSIVE TreeBelow(_, _)
TreeBelow(ms, keys) ==
    IF keys = << >> THEN << >>
    ELSE (IF ms[Head(keys)].HasElem THEN TreeOrder(ms[Head(keys)].Elem) ELSE << >>)
         \o TreeBelow(ms, Tail(keys))
TreeOrder(meta) ==
    <<Head(DereferencePtrType(meta.Type))>> \o TreeBelow(meta.Schema, Ascending(DOMAIN meta.Schema))

\* C27: the buffers that the expand emitter has returned define, one after
\* the other, the functions of the types of the metadata tree in pre-order
\* with the keys of a level ascending, one buffer for every nested tree, and
\* every function that a buffer calls is defined by a buffer.
BuffersInPreOrder ==
    Expanded =>
        LET out == emit.expand.out IN
        /\ [j \in 1..Len(out) |-> FunctionOf(out[j])] = TreeOrder(result.meta)
        /\ \A j \in 1..Len(out) :
             CallsOf(out[j]) \subseteq {FunctionOf(out[i]) : i \in 1..Len(out)}

\* Duo declares One, a Wide, before Base, a Base: the functions are those
\* of Duo, of Base and of Wide, and the first calls the two others.
BuffersInPreOrderWitness ==
    /\ Expanded /\ ~hasFilter /\ result.meta.Type = <<"Duo">>
    /\ [j \in 1..Len(emit.expand.out) |-> FunctionOf(emit.expand.out[j])]
         = <<"Duo", "Base", "Wide">>
    /\ CallsOf(emit.expand.out[1]) = {"Base", "Wide"}
    /\ TreeOrder(result.meta) = <<"Duo", "Base", "Wide">>

\* C28: when a write to the writer has failed during a serialization, at the
\* top level or inside a nested schema, schemaFprint returns an error.
WriteFailureSurfaced ==
    (Serialized /\ emit.schema.werr) => emit.schema.ret # NoErr

\* Every node of the tree, at every level, whose field is a composite or a
\* collection of composites holds a nested tree.
RECURSIVE NestedTreesPresent(_)
NestedTreesPresent(ms) ==
    \A k \in DOMAIN ms :
        HasFunction(ms[k]) => ms[k].HasElem /\ NestedTreesPresent(ms[k].Elem.Schema)

\* C29: in the metadata tree that a derivation returns without an error,
\* under any filter, every node whose field is a composite or a collection
\* of composites holds a nested tree, and the expand emitter, once called
\* with the tree, returns.
ExpandFindsNestedTrees ==
    /\ (pc = "done" /\ result.err = NoErr) => NestedTreesPresent(result.meta.Schema)
    /\ (pc = "done" /\ emit.expand.state # "none") => emit.expand.state = "ok"

====
